---------------------------- MODULE Spec2Model ----------------------------
(***************************************************************************)
(* A model of the EPC connection code of rust-elrpc.                       *)
(*                                                                         *)
(* Two connection handlers live in the repository and both are modelled:   *)
(*   "server"  : handle_connection / process_message   (src/src/server.rs) *)
(*   "handler" : ServerConnectionHandler (src/src/server_handler.rs) with  *)
(*               the hand-written codec of src/src/message.rs              *)
(* and the caller side, Client (src/src/client.rs).                        *)
(*                                                                         *)
(* The wire is a sequence of units.  A unit is one character of a length   *)
(* prefix or one lexical token of an S-expression text (a parenthesis, a   *)
(* numeral, a symbol, a string literal), so the six-character prefix of a  *)
(* frame counts the tokens of its payload.  A value is represented by its  *)
(* token sequence.                                                         *)
(*                                                                         *)
(* Integer widths are scaled: u64/i64 are UidBits wide and i32 is          *)
(* UidBits - 1 wide, so that the casts of the code wrap inside the range   *)
(* the model checker can count in.                                         *)
(***************************************************************************)
EXTENDS Integers, Sequences, FiniteSets, TLC

(***************************************************************************)
(* Bounds of the model                                                     *)
(***************************************************************************)
\* width, in bits, that stands for the 64 bits of a UID
UidBits == 4
\* number of frames the raw peer of a server connection may write
MaxPeerFrames == 2
\* number of concurrent callers on one Client
NumCallers == 2
\* number of unsolicited frames the peer of a Client may write
MaxUnsolicited == 1
\* reads of the Client that return less than one written frame
MaxShortReads == 1
\* the number of bytes such a read returns
ShortReadLen == 3
\* longest payload the framer is applied to on its own
MaxPayloadLen == 17
\* longest string the codec of message.rs is applied to
MaxStringLen == 2

\* length of the length prefix of a frame
HeaderLen == 6

Pow2(n) == IF n = 0 THEN 1 ELSE IF n = 1 THEN 2 ELSE IF n = 2 THEN 4
           ELSE IF n = 3 THEN 8 ELSE IF n = 4 THEN 16 ELSE IF n = 5 THEN 32
           ELSE IF n = 6 THEN 64 ELSE 128

U64Max == Pow2(UidBits) - 1
I64Max == Pow2(UidBits - 1) - 1
I64Min == 0 - Pow2(UidBits - 1)
I32Max == Pow2(UidBits - 2) - 1
I32Min == 0 - Pow2(UidBits - 2)

\* `uid as i64`: the two's-complement reinterpretation of a u64
AsI64(u) == IF u > I64Max THEN u - Pow2(UidBits) ELSE u

NoneVal == 0 - 1

(***************************************************************************)
(* Framer (src/src/protocol.rs)                                            *)
(***************************************************************************)
HexChars == <<"0", "1", "2", "3", "4", "5", "6", "7",
              "8", "9", "a", "b", "c", "d", "e", "f">>

RECURSIVE Pow16(_)
Pow16(n) == IF n = 0 THEN 1 ELSE 16 * Pow16(n - 1)

\* the digits of n in radix 16, lower case, without leading zeros
RECURSIVE HexDigits(_)
HexDigits(n) ==
    IF n < 16 THEN <<HexChars[n + 1]>>
    ELSE Append(HexDigits(n \div 16), HexChars[(n % 16) + 1])

\* format!("{:06x}", len): the digits of len, padded with zeros on the left
\* to a width of six; a number of more than six digits is written in full
Hex6(len) ==
    LET digits == HexDigits(len) IN
    IF Len(digits) >= HeaderLen THEN digits
    ELSE [i \in 1..HeaderLen - Len(digits) |-> "0"] \o digits

\* value of one character in radix 16, NoneVal when it is no digit
\* (char::to_digit(16) accepts both cases)
HexDigitVal(c) ==
    IF \E i \in 1..16 : HexChars[i] = c
    THEN (CHOOSE i \in 1..16 : HexChars[i] = c) - 1
    ELSE IF c = "A" THEN 10 ELSE IF c = "B" THEN 11 ELSE IF c = "C" THEN 12
    ELSE IF c = "D" THEN 13 ELSE IF c = "E" THEN 14 ELSE IF c = "F" THEN 15
    ELSE NoneVal

RECURSIVE RadixFold(_, _, _)
RadixFold(s, i, acc) ==
    IF i > Len(s) THEN acc
    ELSE IF HexDigitVal(s[i]) = NoneVal THEN NoneVal
    ELSE RadixFold(s, i + 1, acc * 16 + HexDigitVal(s[i]))

\* the unit that stands for a byte that is no valid UTF-8
BadByte == "<ff>"

Utf8Ok(s) == \A i \in 1..Len(s) : s[i] # BadByte

\* usize::from_str_radix(s, 16): an optional leading "+", then one or more
\* digits; NoneVal on error
FromStrRadix16(s) ==
    IF Len(s) = 0 THEN NoneVal
    ELSE IF s[1] = "+"
         THEN (IF Len(s) = 1 THEN NoneVal ELSE RadixFold(s, 2, 0))
         ELSE RadixFold(s, 1, 0)

FrameMutant(message) == Hex6(Len(message) + 1) \o message
Frame(message) == Hex6(Len(message)) \o message

ParseLength(buf) ==
    IF Len(buf) < HeaderLen THEN NoneVal
    ELSE IF ~Utf8Ok(SubSeq(buf, 1, HeaderLen)) THEN NoneVal
    ELSE FromStrRadix16(SubSeq(buf, 1, HeaderLen))

\* extract_message without the check that the whole frame has arrived
ExtractMessageMutant(buf) ==
    IF Len(buf) < HeaderLen \/ ParseLength(buf) = NoneVal
    THEN [some |-> FALSE, message |-> <<>>, rest |-> buf]
    ELSE [some |-> TRUE,
          message |-> SubSeq(buf, HeaderLen + 1, Len(buf)),
          rest |-> <<>>]

\* extract_message: [some, message, rest]; rest is the buffer afterwards
ExtractMessage(buf) ==
    IF Len(buf) < HeaderLen \/ ParseLength(buf) = NoneVal
       \/ Len(buf) < HeaderLen + ParseLength(buf)
    THEN [some |-> FALSE, message |-> <<>>, rest |-> buf]
    ELSE [some |-> TRUE,
          message |-> SubSeq(buf, HeaderLen + 1, HeaderLen + ParseLength(buf)),
          rest |-> SubSeq(buf, HeaderLen + ParseLength(buf) + 1, Len(buf))]


(***************************************************************************)
(* Texts, tokens and errors                                                *)
(***************************************************************************)
\* method names: the first three are registered, "nope" never is
MethodNames == {"echo", "fail", "slow", "nope"}

\* ERPCError (src/src/error.rs): [kind, text]
Err(kind, text) == [kind |-> kind, text |-> text]

\* the #[error("...")] formats of ERPCError
Display(e) ==
    IF e.kind = "ConnectionClosed" THEN "connection closed"
    ELSE IF e.kind = "MethodNotFound" THEN "method not found: " \o e.text
    ELSE IF e.kind = "SerializationError" THEN "serialization error: " \o e.text
    ELSE IF e.kind = "ProtocolError" THEN "protocol error: " \o e.text
    ELSE IF e.kind = "ApplicationError"
         THEN "application error: RuntimeError: " \o e.text
    ELSE IF e.kind = "Parse" THEN "parse error: " \o e.text
    ELSE IF e.kind = "InvalidMessageFormat"
         THEN "invalid message format: " \o e.text
    ELSE IF e.kind = "InvalidArgument" THEN "invalid argument: " \o e.text
    ELSE IF e.kind = "Io" THEN "I/O error: " \o e.text
    ELSE "timeout error"

\* descriptions produced by the parsers (their dynamic parts left out)
ParseTexts == {"unexpected input", "utf-8", "Expected list",
               "Message too short", "Expected symbol for message type",
               "Invalid UID value", "Expected number for UID",
               "Call message should have 4 elements",
               "Expected symbol/string for method name",
               "Return message should have 3 elements",
               "Return-error message should have 3 elements",
               "Expected string for error message",
               "EPC-error message should have 3 elements",
               "Expected string for EPC error",
               "Methods message should have 2 elements",
               "Unknown message type", "Unexpected message type"}

\* every string that occurs as the content of a string literal
Texts == {"", "hi", "boom", "Method not found: nope", "Application error: boom"}
         \cup {Display(Err("MethodNotFound", m)) : m \in MethodNames}
         \cup {Display(Err("InvalidArgument", "boom"))}
         \cup {Display(Err("InvalidMessageFormat", d)) : d \in ParseTexts}
         \cup {Display(Err("Parse", d)) : d \in ParseTexts}

\* a string literal token
Quote(s) == "\"" \o s \o "\""
StrToks == {Quote(s) : s \in Texts}
IsStrTok(t) == t \in StrToks
Unquote(t) == CHOOSE s \in Texts : Quote(s) = t

\* numerals: every integer the scaled widths can tell apart, and one beyond
\* on each side
NumRange == (I64Min - 1)..(U64Max + 1)
Numerals == {ToString(n) : n \in NumRange}
IsNumTok(t) == t \in Numerals
NumVal(t) == CHOOSE n \in NumRange : ToString(n) = t

IsSymTok(t) == t \notin {"(", ")", BadByte} /\ ~IsNumTok(t) /\ ~IsStrTok(t)

(***************************************************************************)
(* Reading one S-expression from a token sequence                          *)
(***************************************************************************)
\* splits t[i..] into its top-level items; ok is FALSE on a stray ")" or a
\* missing one
RECURSIVE SplitFrom(_, _, _, _, _)
SplitFrom(t, i, depth, cur, acc) ==
    IF i > Len(t) THEN [ok |-> depth = 0, items |-> acc]
    ELSE IF t[i] = "("
         THEN SplitFrom(t, i + 1, depth + 1, Append(cur, t[i]), acc)
    ELSE IF t[i] = ")"
         THEN IF depth = 0 THEN [ok |-> FALSE, items |-> acc]
              ELSE IF depth = 1
                   THEN SplitFrom(t, i + 1, 0, <<>>,
                                  Append(acc, Append(cur, t[i])))
                   ELSE SplitFrom(t, i + 1, depth - 1, Append(cur, t[i]), acc)
    ELSE IF depth = 0
         THEN SplitFrom(t, i + 1, 0, <<>>, Append(acc, <<t[i]>>))
         ELSE SplitFrom(t, i + 1, depth, Append(cur, t[i]), acc)

\* lexpr::from_str: exactly one value.  kind is "error", "atom", "null"
\* (the empty list) or "list" (a Cons, with its items)
ReadValue(text) ==
    LET toks == SelectSeq(text, LAMBDA t : t # "\n") IN
    IF Len(toks) = 0 THEN [kind |-> "error", items |-> <<>>]
    ELSE IF toks[1] = "("
         THEN IF toks[Len(toks)] # ")" \/ Len(toks) < 2
              THEN [kind |-> "error", items |-> <<>>]
              ELSE LET r == SplitFrom(SubSeq(toks, 2, Len(toks) - 1),
                                      1, 0, <<>>, <<>>)
                   IN  IF ~r.ok THEN [kind |-> "error", items |-> <<>>]
                       ELSE IF Len(r.items) = 0
                            THEN [kind |-> "null", items |-> <<>>]
                            ELSE [kind |-> "list", items |-> r.items]
    ELSE IF Len(toks) = 1 /\ toks[1] # ")"
         THEN [kind |-> "atom", items |-> <<toks>>]
         ELSE [kind |-> "error", items |-> <<>>]

IsAtom(v) == Len(v) = 1

(***************************************************************************)
(* Message (src/src/protocol.rs)                                           *)
(***************************************************************************)
Msg(type, uid, method, value, error) ==
    [type |-> type, uid |-> uid, method |-> method, value |-> value,
     error |-> error]

new_call(uid, method, args) == Msg("call", uid, method, args, "")
new_return(uid, result) == Msg("return", uid, "", result, "")
new_return_error(uid, error) == Msg("return-error", uid, "", <<>>, error)
new_epc_error(uid, error) == Msg("epc-error", uid, "", <<>>, error)
new_methods(uid) == Msg("methods", uid, "", <<>>, "")

\* how to_sexp writes the UID: Value::from(*uid as i64)
UidToWire(uid) == ToString(AsI64(uid))

\* Message::to_sexp
to_sexp(m) ==
    IF m.type = "call"
    THEN <<"(", "call", UidToWire(m.uid), m.method>> \o m.value \o <<")">>
    ELSE IF m.type = "return"
    THEN <<"(", "return", UidToWire(m.uid)>> \o m.value \o <<")">>
    ELSE IF m.type = "methods"
    THEN <<"(", "methods", UidToWire(m.uid), ")">>
    ELSE <<"(", m.type, UidToWire(m.uid), Quote(m.error), ")">>

Ok(m) == [ok |-> TRUE, msg |-> m, err |-> Err("", "")]
Bad(e) == [ok |-> FALSE, msg |-> Msg("", 0, "", <<>>, ""), err |-> e]
Invalid(d) == Bad(Err("InvalidMessageFormat", d))

\* as_u64 that takes a negative number for its magnitude
AsU64Mutant(t) ==
    IF NumVal(t) > U64Max THEN NoneVal
    ELSE IF NumVal(t) < 0 THEN 0 - NumVal(t)
    ELSE NumVal(t)

\* Number::as_u64 of the second item, NoneVal when it is negative or was
\* read as a float because it does not fit 64 bits
AsU64(t) == IF NumVal(t) >= 0 /\ NumVal(t) <= U64Max THEN NumVal(t)
            ELSE NoneVal

\* the match on the message type, once type and uid are known
FromItems(items, uid) ==
    LET n == Len(items)
        ty == items[1][1]
    IN  IF ty = "call"
        THEN IF n # 4 THEN Invalid("Call message should have 4 elements")
             ELSE IF IsAtom(items[3])
                     /\ (IsSymTok(items[3][1]) \/ IsStrTok(items[3][1]))
                  THEN Ok(new_call(uid,
                                   IF IsStrTok(items[3][1])
                                   THEN Unquote(items[3][1])
                                   ELSE items[3][1],
                                   items[4]))
                  ELSE Invalid("Expected symbol/string for method name")
        ELSE IF ty = "return"
        THEN IF n # 3 THEN Invalid("Return message should have 3 elements")
             ELSE Ok(new_return(uid, items[3]))
        ELSE IF ty = "return-error"
        THEN IF n # 3
             THEN Invalid("Return-error message should have 3 elements")
             ELSE IF IsAtom(items[3]) /\ IsStrTok(items[3][1])
                  THEN Ok(new_return_error(uid, Unquote(items[3][1])))
                  ELSE Invalid("Expected string for error message")
        ELSE IF ty = "epc-error"
        THEN IF n # 3 THEN Invalid("EPC-error message should have 3 elements")
             ELSE IF IsAtom(items[3]) /\ IsStrTok(items[3][1])
                  THEN Ok(new_epc_error(uid, Unquote(items[3][1])))
                  ELSE Invalid("Expected string for EPC error")
        ELSE IF ty = "methods"
        THEN IF n # 2 THEN Invalid("Methods message should have 2 elements")
             ELSE Ok(new_methods(uid))
        ELSE Invalid("Unknown message type")

\* Message::from_sexp
from_sexp(s) ==
    LET v == ReadValue(s)
        items == IF v.kind = "null" THEN << <<"()">> >> ELSE v.items
    IN  IF v.kind = "error" THEN Bad(Err("Parse", "unexpected input"))
        ELSE IF v.kind = "atom" THEN Invalid("Expected list")
        ELSE IF Len(items) < 2 THEN Invalid("Message too short")
        ELSE IF ~(IsAtom(items[1]) /\ IsSymTok(items[1][1]))
             THEN Invalid("Expected symbol for message type")
        ELSE IF ~(IsAtom(items[2]) /\ IsNumTok(items[2][1]))
             THEN Invalid("Expected number for UID")
        ELSE IF AsU64(items[2][1]) = NoneVal THEN Invalid("Invalid UID value")
        ELSE FromItems(items, AsU64(items[2][1]))


(***************************************************************************)
(* The hand-written codec (src/src/message.rs), used by                    *)
(* ServerConnectionHandler.  A session id is a string.  Values are kept as *)
(* the tokens they are emitted as.                                         *)
(***************************************************************************)
\* Display of the EpcError of ServerConnectionHandler
EpcErrorDisplay(kind, text) ==
    IF kind = "MethodNotFound" THEN "Method not found: " \o text
    ELSE "Application error: " \o text

\* parse_token: what a bare token is read as
TokenKind(t) ==
    IF t = "nil" THEN "nil"
    ELSE IF t = "t" THEN "bool"
    ELSE IF IsNumTok(t)
         THEN (IF NumVal(t) >= I64Min /\ NumVal(t) <= I64Max THEN "int"
               ELSE "float")
    ELSE IF IsStrTok(t) THEN "string"
    ELSE "symbol"

\* the loop of parse_sexpr_list over the text between the outer parentheses:
\* status "ok", "err" (read_nested_list finds no closing parenthesis) or
\* "hang" (read_token returns the empty token on a ")" and consumes nothing)
RECURSIVE ParseItems(_, _, _, _, _)
ParseItems(t, i, depth, cur, acc) ==
    IF i > Len(t)
    THEN [status |-> IF depth = 0 THEN "ok" ELSE "err", items |-> acc]
    ELSE IF t[i] = "("
         THEN ParseItems(t, i + 1, depth + 1, Append(cur, t[i]), acc)
    ELSE IF t[i] = ")"
         THEN IF depth = 0 THEN [status |-> "hang", items |-> acc]
              ELSE IF depth = 1
                   THEN ParseItems(t, i + 1, 0, <<>>,
                                   Append(acc, Append(cur, t[i])))
                   ELSE ParseItems(t, i + 1, depth - 1, Append(cur, t[i]), acc)
    ELSE IF depth > 0
         THEN ParseItems(t, i + 1, depth, Append(cur, t[i]), acc)
    ELSE IF t[i] = "\n" THEN ParseItems(t, i + 1, 0, <<>>, acc)
    ELSE ParseItems(t, i + 1, 0, <<>>, Append(acc, <<t[i]>>))

\* str::trim on a token sequence
RECURSIVE Trim(_)
Trim(t) ==
    IF Len(t) = 0 THEN t
    ELSE IF t[1] = "\n" THEN Trim(Tail(t))
    ELSE IF t[Len(t)] = "\n" THEN Trim(SubSeq(t, 1, Len(t) - 1))
    ELSE t

parse_sexpr_list(data) ==
    LET trimmed == Trim(data) IN
    IF Len(trimmed) < 2 \/ trimmed[1] # "(" \/ trimmed[Len(trimmed)] # ")"
    THEN [status |-> "err", items |-> <<>>]
    ELSE ParseItems(SubSeq(trimmed, 2, Len(trimmed) - 1), 1, 0, <<>>, <<>>)

OldMsg(msg_type, session_id, method, args, payload) ==
    [msg_type |-> msg_type, session_id |-> session_id, method |-> method,
     args |-> args, payload |-> payload]

OldBad(status) == [status |-> status, msg |-> OldMsg("", "", "", <<>>, <<>>)]

\* the arguments of a call: the items after the method name, or the items of
\* the single list that follows it
CallArgs(items) ==
    LET rest == SubSeq(items, 4, Len(items)) IN
    IF Len(rest) = 1 /\ rest[1][1] = "("
    THEN parse_sexpr_list(rest[1]).items
    ELSE rest

\* Message::from_sexpr: status "ok", "err" or "hang"
from_sexpr(data) ==
    LET r == parse_sexpr_list(data)
        list == r.items
    IN  IF r.status # "ok" THEN OldBad(r.status)
        ELSE IF Len(list) < 3 THEN OldBad("err")
        ELSE IF ~(IsAtom(list[1]) /\ TokenKind(list[1][1]) = "symbol"
                  /\ list[1][1] \in {"call", "return", "return-error",
                                     "epc-error", "methods"})
             THEN OldBad("err")
        ELSE IF ~(IsAtom(list[2])
                  /\ TokenKind(list[2][1]) \in {"string", "int"})
             THEN OldBad("err")
        ELSE LET ty == list[1][1]
                 sid == IF IsStrTok(list[2][1]) THEN Unquote(list[2][1])
                        ELSE ToString(NumVal(list[2][1]))
             IN  IF ty = "call"
                 THEN IF IsAtom(list[3])
                         /\ TokenKind(list[3][1]) \in {"symbol", "string"}
                      THEN [status |-> "ok",
                            msg |-> OldMsg(ty, sid,
                                      IF IsStrTok(list[3][1])
                                      THEN Unquote(list[3][1])
                                      ELSE list[3][1],
                                      CallArgs(list), <<>>)]
                      ELSE OldBad("err")
                 ELSE [status |-> "ok",
                       msg |-> OldMsg(ty, sid, "", <<>>, list[3])]

\* self.session_id.parse().unwrap_or(0): the literal 0 makes the target i32
SessionIdInt(sid) ==
    IF sid \in Numerals /\ NumVal(sid) >= I32Min /\ NumVal(sid) <= I32Max
    THEN NumVal(sid)
    ELSE 0

\* serialize_value of a value kept as its tokens
serialize_value(v) == v

RECURSIVE Flatten(_)
Flatten(vs) == IF Len(vs) = 0 THEN <<>> ELSE Head(vs) \o Flatten(Tail(vs))

\* Message::to_sexpr
to_sexpr(m) ==
    IF m.msg_type = "call"
    THEN <<"(", "call", ToString(SessionIdInt(m.session_id)), m.method>>
         \o Flatten(m.args) \o <<")">>
    ELSE <<"(", m.msg_type, ToString(SessionIdInt(m.session_id))>>
         \o serialize_value(m.payload) \o <<")">>

\* what ServerConnectionHandler::send_message writes: header, text, newline
HandlerFrame(m) == Frame(Append(to_sexpr(m), "\n"))

(***************************************************************************)
(* Registered handlers.  "echo" returns its argument, "fail" returns an    *)
(* error whose message is "boom", "slow" is a long-running echo.           *)
(***************************************************************************)
HandlerMessage == "boom"

\* a handler registered with Server::register_value_method
ValueHandler(method, args) ==
    IF method = "fail"
    THEN [ok |-> FALSE, value |-> <<>>,
          err |-> Err("InvalidArgument", HandlerMessage)]
    ELSE [ok |-> TRUE, value |-> args, err |-> Err("", "")]

\* a MethodHandler of ServerConnectionHandler: a function of the argument list
ListHandler(method, args) ==
    IF method = "fail"
    THEN [ok |-> FALSE, value |-> <<>>,
          err |-> EpcErrorDisplay("Application", HandlerMessage)]
    ELSE [ok |-> TRUE,
          value |-> IF Len(args) = 0 THEN <<"nil">> ELSE args[1],
          err |-> ""]


(***************************************************************************)
(* State                                                                   *)
(***************************************************************************)
VARIABLES
    c2s,            \* units written towards the serving side, not yet read
    c2sClosed,      \* the writer of c2s has shut its half down
    s2c,            \* units written towards the calling side, not yet read
    s2cClosed,      \* the writer of s2c has dropped the stream
    registry,       \* names registered in the serving side's registry
    impl,           \* "server", "handler": which code serves the connection
    spc,            \* where the connection task is: "read", "extract",
                    \* "handling", "done" (returned Ok), "failed" (returned
                    \* Err), "hung"
    sbuf,           \* buffer / message_buffer
    expected_length,\* ServerConnectionHandler::handle's expected_length
    cur,            \* the call whose handler is running
    reqs,           \* history: every message extracted so far, with the
                    \* responses written for it
    peerFrames,     \* number of frames the raw peer has written
    next_uid,       \* Client::next_uid
    lock,           \* owner of Client::stream's mutex: 0 when free
    cpc,            \* per caller: where it is in call_sync / query_methods
    cop,            \* per caller: the operation and its inputs
    cuid,           \* per caller: the UID it allocated
    cbuf,           \* per caller: send_message's local buffer
    cgot,           \* per caller: the text send_message extracted
    cres,           \* per caller: what the operation returned
    closePc,        \* Client::close: "idle", "waiting", "done"
    peerSent,       \* history: texts the Client's peer sent unasked
    peerSeen,       \* history: request texts the Client's peer has answered
    shortReads,     \* reads of the Client that returned part of a frame
    pop,            \* the function applied to an input on its own, "" if none
    pin,            \* its input
    pout,           \* its output, once it has been applied
    written,        \* the frames the raw peer has written, in order
    methods,        \* MethodRegistry: the handler registered under each name
    rwlock,         \* its RwLock: readers, writer, tasks waiting in order
    task,           \* the tasks that use the registry: position, operation,
                    \* result
    oplog,          \* the register and unregister operations performed
    seen,           \* the contents the registry had during the current query
    counter,        \* UidGenerator::counter
    uids,           \* the values next() has returned to each thread
    start,          \* the value the generator was made with
    wasReset,       \* reset() has been called on it
    SESSION_COUNTER, \* the static counter of message.rs
    clients,        \* each connection's own counter and the UIDs of the
                    \* calls issued on it
    listener,       \* Server: where the listener and its task are
    shutdown_tx,    \* Server::shutdown_tx is Some
    signal,         \* the shutdown channel holds a message
    shutdownPc,     \* where the caller of Server::shutdown is
    conn,           \* where each connection to the server is
    answered,       \* the connections that had a request answered, and
                    \* whether shutdown had returned
    child,          \* the process spawned by Process::start
    childOut,       \* the lines the child has put on its standard output
    childHandle,    \* the program holds a Child for the process
    killed,         \* the child has been asked to terminate
    startPc,        \* where Process::start is
    procClient,     \* Process::client is Some
    stopped,        \* Process::stop has returned, or the Process is dropped
    unwritten,      \* what write_all has still to write of each caller's frame
    c2sBy           \* the caller that wrote each unit of the client's stream

wireVars == <<c2s, c2sClosed, s2c, s2cClosed>>
serverVars == <<registry, impl, spc, sbuf, expected_length, cur, reqs,
                peerFrames>>
clientVars == <<next_uid, lock, cpc, cop, cuid, cbuf, cgot, cres, closePc,
                peerSent, peerSeen, shortReads>>
pureVars == <<pop, pin, pout>>
regVars == <<methods, rwlock, task, oplog, seen>>
uidVars == <<counter, uids, start, wasReset>>
sessVars == <<SESSION_COUNTER, clients>>
lifeVars == <<listener, shutdown_tx, signal, shutdownPc, conn, answered>>
procVars == <<child, childOut, childHandle, killed, startPc, procClient,
             stopped>>
wrVars == <<unwritten, c2sBy>>
auxVars == <<regVars, uidVars, sessVars, lifeVars, procVars, wrVars>>
vars == <<wireVars, serverVars, clientVars, pureVars, written, auxVars>>

Callers == 1..NumCallers

NoCall == [uid |-> 0, sid |-> "", method |-> "", args |-> <<>>]
NoOp == [op |-> "", method |-> "", args |-> <<>>, ret |-> "", ctx |-> ""]
NoRes == [ok |-> FALSE, value |-> <<>>, err |-> Err("", "")]

\* the methods registered before the connection is served
InitialRegistry == {"echo", "fail", "slow"}

ClientIdle ==
    /\ next_uid = 1
    /\ lock = 0
    /\ cpc = [t \in Callers |-> "idle"]
    /\ cop = [t \in Callers |-> NoOp]
    /\ cuid = [t \in Callers |-> 0]
    /\ cbuf = [t \in Callers |-> <<>>]
    /\ cgot = [t \in Callers |-> <<>>]
    /\ cres = [t \in Callers |-> NoRes]
    /\ closePc = "idle"
    /\ peerSent = <<>>
    /\ peerSeen = <<>>
    /\ shortReads = 0

\* names under which methods are registered
RegNames == {"echo", "slow"}

\* a handler with the MethodInfo it reports; the one that is slow may take
\* for ever to return
Handler(name, docstring, slow) ==
    [name |-> name, docstring |-> docstring, slow |-> slow]
NoHandler == Handler("", "", FALSE)

\* the tasks that use one registry: one registers and unregisters, one calls
\* methods, one asks what is registered
Tasks == {"registrar", "caller", "observer"}

NoTask == [pc |-> "idle", op |-> "", name |-> "", handler |-> NoHandler,
           left |-> {}, result |-> <<>>, found |-> FALSE, at |-> 0]

\* MethodRegistry::new(), nobody using it
RegIdle ==
    /\ methods = [n \in RegNames |-> NoHandler]
    /\ rwlock = [readers |-> {}, writer |-> "", queue |-> <<>>]
    /\ task = [t \in Tasks |-> NoTask]
    /\ oplog = <<>>
    /\ seen = {}

\* the threads that share one UidGenerator
NumThreads == 2
Threads == 1..NumThreads

\* UidGenerator::new(), nobody using it
UidIdle ==
    /\ counter = 1
    /\ uids = [t \in Threads |-> <<>>]
    /\ start = 1
    /\ wasReset = FALSE

\* the connections one process makes
NumConns == 2
Conns == 1..NumConns

\* no connection made, no Message built
SessIdle ==
    /\ SESSION_COUNTER = 1
    /\ clients = [c \in Conns |-> [kind |-> "", next_uid |-> 1,
                                   issued |-> <<>>]]

\* Server::new(), and nobody connecting
LifeIdle ==
    /\ listener = "none"
    /\ shutdown_tx = FALSE
    /\ signal = FALSE
    /\ shutdownPc = "idle"
    /\ conn = [c \in Conns |-> "none"]
    /\ answered = {}

\* Process::new(command, args)
ProcIdle ==
    /\ child = "none"
    /\ childOut = <<>>
    /\ childHandle = FALSE
    /\ killed = FALSE
    /\ startPc = "idle"
    /\ procClient = FALSE
    /\ stopped = "no"

\* nothing being written by a caller
WrIdle ==
    /\ unwritten = [t \in Callers |-> <<>>]
    /\ c2sBy = <<>>

AuxIdle ==
    RegIdle /\ UidIdle /\ SessIdle /\ LifeIdle /\ ProcIdle /\ WrIdle

\* pout holds the result of the function applied on its own, once applied
NotApplied == <<>>
PureIdle ==
    /\ pop = ""
    /\ pin = <<>>
    /\ pout = NotApplied

WireIdle ==
    /\ c2s = <<>>
    /\ c2sClosed = FALSE
    /\ s2c = <<>>
    /\ s2cClosed = FALSE
    /\ written = <<>>

\* a connection has just been accepted and its task spawned
ServerInit ==
    /\ WireIdle
    /\ AuxIdle
    /\ PureIdle
    /\ ClientIdle
    /\ registry = InitialRegistry
    /\ impl \in {"server", "handler"}
    /\ spc = "read"
    /\ sbuf = <<>>
    /\ expected_length = NoneVal
    /\ cur = NoCall
    /\ reqs = <<>>
    /\ peerFrames = 0

(***************************************************************************)
(* The raw peer of a server connection: it writes frames of its choice     *)
(***************************************************************************)
\* UIDs the peer uses: a small one, the first beyond i32, the first beyond
\* i64
UidInputs == {1, I32Max + 1, I64Max + 1}

CallText(uid, method) == <<"(", "call", ToString(uid), method, "7", ")">>

PeerTexts ==
    {CallText(u, "echo") : u \in UidInputs}
    \cup {CallText(1, m) : m \in {"fail", "slow", "nope"}}
    \cup {CallText(I64Max + 1, "fail")}
    \cup {<<"(", "methods", "1", ")">>}

\* a frame whose first six units are no hexadecimal length
BadPrefixFrame == <<"z", "0", "0", "0", "0", "1", "x">>

\* bodies that are no message: an S-expression that does not end, bytes that
\* are no UTF-8, an unknown kind, a call without method and arguments
MalformedTexts ==
    {<<"(", "call", "1", "echo", "7">>,
     <<"(", BadByte, ")">>,
     <<"(", "bogus", "1", "7", ")">>,
     <<"(", "call", "1", ")">>}

\* responses to calls the serving side never made
StrayResponses ==
    {to_sexp(new_return(1, <<"7">>)),
     to_sexp(new_return_error(1, "boom")),
     to_sexp(new_epc_error(1, "boom"))}

PeerInputs ==
    {Frame(t) : t \in PeerTexts \cup MalformedTexts \cup StrayResponses}
    \cup {BadPrefixFrame}

PeerWrite(f) ==
    /\ peerFrames < MaxPeerFrames
    /\ ~c2sClosed
    /\ c2s' = c2s \o f
    /\ peerFrames' = peerFrames + 1
    /\ written' = Append(written, f)
    /\ UNCHANGED <<c2sClosed, s2c, s2cClosed, registry, impl, spc, sbuf,
                   expected_length, cur, reqs, clientVars>>
    /\ UNCHANGED <<pureVars, auxVars>>

PeerShutdown ==
    /\ ~c2sClosed
    /\ c2sClosed' = TRUE
    /\ UNCHANGED <<c2s, s2c, s2cClosed, serverVars, clientVars>>
    /\ UNCHANGED <<pureVars, written, auxVars>>


(***************************************************************************)
(* handle_connection and process_message (src/src/server.rs)               *)
(***************************************************************************)
RECURSIVE SetToSeq(_)
SetToSeq(S) == IF S = {} THEN <<>>
               ELSE LET x == CHOOSE y \in S : TRUE
                    IN  <<x>> \o SetToSeq(S \ {x})

\* the result of a methods query: one (name arg-spec docstring) per method,
\* registered here without arg-spec and docstring (Value::Null, written "()")
MethodList(reg) ==
    <<"(">> \o Flatten([i \in 1..Cardinality(reg) |->
                 <<"(", Quote(SetToSeq(reg)[i]), "(", ")", "(", ")", ")">>])
    \o <<")">>

Respond(text) == [kind |-> "respond", text |-> text, err |-> Err("", ""),
                  call |-> NoCall]
Fail(e) == [kind |-> "error", text |-> <<>>, err |-> e, call |-> NoCall]
Invoke(c) == [kind |-> "invoke", text |-> <<>>, err |-> Err("", ""),
              call |-> c]

\* what is written once the handler of call c has returned res
HandlerReply(c, res) ==
    to_sexp(IF res.ok THEN new_return(c.uid, res.value)
            ELSE new_return_error(c.uid, Display(res.err)))

\* process_message up to the point where a registered handler is entered
process_message(message_bytes, reg) ==
    IF ~Utf8Ok(message_bytes) THEN Fail(Err("InvalidMessageFormat", "utf-8"))
    ELSE LET p == from_sexp(message_bytes) IN
         IF ~p.ok THEN Fail(p.err)
         ELSE IF p.msg.type = "call"
              THEN IF p.msg.method \in reg
                   THEN Invoke([uid |-> p.msg.uid, sid |-> "",
                                method |-> p.msg.method,
                                args |-> p.msg.value])
                   ELSE Respond(HandlerReply(
                            [uid |-> p.msg.uid, sid |-> "",
                             method |-> p.msg.method, args |-> p.msg.value],
                            [ok |-> FALSE, value |-> <<>>,
                             err |-> Err("MethodNotFound", p.msg.method)]))
         ELSE IF p.msg.type = "methods"
              THEN Respond(to_sexp(new_return(p.msg.uid, MethodList(reg))))
         ELSE Fail(Err("InvalidMessageFormat", "Unexpected message type"))

Logged(text, resp, done) == [text |-> text, resp |-> resp, done |-> done]

\* the response to the last extracted message is written
LogReply(text) ==
    reqs' = [reqs EXCEPT ![Len(reqs)] =
                Logged(@.text, Append(@.resp, text), TRUE)]

\* stream.write_all(&framed): the bytes follow those written before
WriteAllMutant(stream, framed) == framed \o stream
WriteAll(stream, framed) == stream \o framed

\* stream.read_buf: some of the bytes in flight arrive, or end of stream
ServerRead ==
    /\ spc = "read"
    /\ \/ /\ c2s = <<>>
          /\ c2sClosed
          /\ spc' = "done"
          /\ s2cClosed' = TRUE
          /\ UNCHANGED <<c2s, sbuf>>
       \/ /\ \E k \in 1..Len(c2s) :
                /\ sbuf' = sbuf \o SubSeq(c2s, 1, k)
                /\ c2s' = SubSeq(c2s, k + 1, Len(c2s))
          /\ spc' = "extract"
          /\ UNCHANGED s2cClosed
    /\ UNCHANGED <<c2sClosed, s2c, registry, impl, expected_length, cur,
                   reqs, peerFrames, clientVars>>
    /\ UNCHANGED <<pureVars, written, auxVars>>

\* one turn of `while let Some(..) = Framer::extract_message(&mut buffer)`
ServerExtract ==
    /\ impl = "server"
    /\ spc = "extract"
    /\ LET r == ExtractMessage(sbuf)
           pm == process_message(r.message, registry)
       IN  IF ~r.some
           THEN /\ spc' = "read"
                /\ UNCHANGED <<s2c, sbuf, cur, reqs>>
           ELSE /\ sbuf' = r.rest
                /\ IF pm.kind = "respond"
                   THEN /\ s2c' = WriteAll(s2c, Frame(pm.text))
                        /\ reqs' = Append(reqs,
                                     Logged(r.message, <<pm.text>>, TRUE))
                        /\ spc' = "extract"
                        /\ UNCHANGED cur
                   ELSE IF pm.kind = "error"
                   THEN LET error_msg ==
                              to_sexp(new_epc_error(0, Display(pm.err)))
                        IN  /\ s2c' = WriteAll(s2c, Frame(error_msg))
                            /\ reqs' = Append(reqs,
                                    Logged(r.message, <<error_msg>>, TRUE))
                            /\ spc' = "read"
                            /\ UNCHANGED cur
                   ELSE /\ cur' = pm.call
                        /\ reqs' = Append(reqs,
                                     Logged(r.message, <<>>, FALSE))
                        /\ spc' = "handling"
                        /\ UNCHANGED s2c
    /\ UNCHANGED <<c2s, c2sClosed, s2cClosed, registry, impl,
                   expected_length, peerFrames, clientVars>>
    /\ UNCHANGED <<pureVars, written, auxVars>>

(***************************************************************************)
(* ServerConnectionHandler (src/src/server_handler.rs)                     *)
(***************************************************************************)
\* handle_message's reply to call c once its handler has returned res
ListHandlerReply(c, res) ==
    IF res.ok THEN OldMsg("return", c.sid, "", <<>>, res.value)
    ELSE OldMsg("return-error", c.sid, "", <<>>, <<Quote(res.err)>>)

\* handle_message up to the point where a registered handler is entered
handle_message(m, reg) ==
    IF m.msg_type = "call"
    THEN IF m.method \in reg
         THEN Invoke([uid |-> 0, sid |-> m.session_id, method |-> m.method,
                      args |-> m.args])
         ELSE Respond(Append(to_sexpr(ListHandlerReply(
                  [uid |-> 0, sid |-> m.session_id, method |-> m.method,
                   args |-> m.args],
                  [ok |-> FALSE, value |-> <<>>,
                   err |-> EpcErrorDisplay("MethodNotFound", m.method)])),
                  "\n"))
    ELSE IF m.msg_type = "methods"
    THEN Respond(Append(to_sexpr(OldMsg("return", m.session_id, "", <<>>,
             <<"(">> \o Flatten([i \in 1..Cardinality(reg) |->
                  <<"(", SetToSeq(reg)[i], Quote(""), Quote(""), ")">>])
             \o <<")">>)), "\n"))
    ELSE [kind |-> "none", text |-> <<>>, err |-> Err("", ""),
          call |-> NoCall]

\* one turn of the inner loop of ServerConnectionHandler::handle
HandlerExtract ==
    /\ impl = "handler"
    /\ spc = "extract"
    /\ LET takeHeader == expected_length = NoneVal /\ Len(sbuf) >= HeaderLen
           parsed == FromStrRadix16(SubSeq(sbuf, 1, HeaderLen))
           length == IF takeHeader THEN parsed ELSE expected_length
           buf1 == IF takeHeader THEN SubSeq(sbuf, HeaderLen + 1, Len(sbuf))
                   ELSE sbuf
           data == SubSeq(buf1, 1, length)
           p == from_sexpr(data)
           hm == handle_message(p.msg, registry)
       IN  IF takeHeader /\ parsed = NoneVal
           THEN \* Err(EpcError::InvalidMessage): the task ends
                /\ spc' = "failed"
                /\ s2cClosed' = TRUE
                /\ UNCHANGED <<s2c, sbuf, expected_length, cur, reqs>>
           ELSE IF length = NoneVal \/ Len(buf1) < length
           THEN /\ spc' = "read"
                /\ sbuf' = buf1
                /\ expected_length' = length
                /\ UNCHANGED <<s2c, s2cClosed, cur, reqs>>
           ELSE IF ~Utf8Ok(data)
           THEN /\ spc' = "failed"
                /\ s2cClosed' = TRUE
                /\ sbuf' = SubSeq(buf1, length + 1, Len(buf1))
                /\ expected_length' = length
                /\ UNCHANGED <<s2c, cur, reqs>>
           ELSE /\ sbuf' = SubSeq(buf1, length + 1, Len(buf1))
                /\ UNCHANGED s2cClosed
                /\ IF p.status = "hang"
                   THEN /\ spc' = "hung"
                        /\ expected_length' = length
                        /\ reqs' = Append(reqs, Logged(data, <<>>, FALSE))
                        /\ UNCHANGED <<s2c, cur>>
                   ELSE IF p.status = "err" \/ hm.kind = "none"
                   THEN /\ spc' = "extract"
                        /\ expected_length' = NoneVal
                        /\ reqs' = Append(reqs, Logged(data, <<>>, TRUE))
                        /\ UNCHANGED <<s2c, cur>>
                   ELSE IF hm.kind = "respond"
                   THEN /\ spc' = "extract"
                        /\ expected_length' = NoneVal
                        /\ s2c' = WriteAll(s2c, Frame(hm.text))
                        /\ reqs' = Append(reqs,
                                     Logged(data, <<hm.text>>, TRUE))
                        /\ UNCHANGED cur
                   ELSE /\ spc' = "handling"
                        /\ expected_length' = length
                        /\ cur' = hm.call
                        /\ reqs' = Append(reqs, Logged(data, <<>>, FALSE))
                        /\ UNCHANGED s2c
    /\ UNCHANGED <<c2s, c2sClosed, registry, impl, peerFrames, clientVars>>
    /\ UNCHANGED <<pureVars, written, auxVars>>

(***************************************************************************)
(* The handler of the current call returns and its reply is written        *)
(***************************************************************************)
ReplyWritten ==
    /\ spc = "handling"
    /\ LET text == IF impl = "server"
                   THEN HandlerReply(cur, ValueHandler(cur.method, cur.args))
                   ELSE Append(to_sexpr(ListHandlerReply(cur,
                                   ListHandler(cur.method, cur.args))), "\n")
       IN  /\ s2c' = WriteAll(s2c, Frame(text))
           /\ LogReply(text)
    /\ spc' = "extract"
    /\ expected_length' = NoneVal
    /\ cur' = NoCall
    /\ UNCHANGED <<c2s, c2sClosed, s2cClosed, registry, impl, sbuf,
                   peerFrames, clientVars>>
    /\ UNCHANGED <<pureVars, written, auxVars>>

\* a handler that returns promptly
HandlerReturn ==
    /\ cur.method # "slow"
    /\ ReplyWritten

\* the long-running handler returns, if it ever does
SlowHandlerReturn ==
    /\ cur.method = "slow"
    /\ ReplyWritten

ServerNext ==
    \/ \E f \in PeerInputs : PeerWrite(f)
    \/ PeerShutdown
    \/ ServerRead
    \/ ServerExtract
    \/ HandlerExtract
    \/ HandlerReturn
    \/ SlowHandlerReturn

ServerSpec == ServerInit /\ [][ServerNext]_vars

\* weak fairness of the extraction step, which can happen whenever the
\* task is at it, with that enabling condition written out
ExtractFair ==
    \/ []<>(spc # "extract")
    \/ []<><<ServerExtract \/ HandlerExtract>>_vars

\* the runtime keeps polling a task that can make progress; nothing makes a
\* long-running handler return
ServerLive ==
    /\ ServerSpec
    /\ WF_vars(ServerRead)
    /\ ExtractFair
    /\ WF_vars(HandlerReturn)


(***************************************************************************)
(* Client (src/src/client.rs)                                              *)
(***************************************************************************)
\* methods registered on the Client with register_method
ClientRegistry == {"hello"}

\* what a caller asks for: call_sync(method, args) with the return type ret,
\* or query_methods().  Caller t passes the argument t.
CallerOps(t) ==
    {[op |-> "call_sync", method |-> m, args |-> <<ToString(t)>>,
      ret |-> r, ctx |-> ""] :
         m \in {"echo", "fail"}, r \in {"int", "string"}}
    \cup {[op |-> "query_methods", method |-> "", args |-> <<>>,
           ret |-> "list", ctx |-> ""]}

\* where the future is polled: on a runtime worker ("runtime") or by an
\* executor outside the runtime ("foreign")
Contexts == {"runtime", "foreign"}

Failed(e) == [ok |-> FALSE, value |-> <<>>, err |-> e]
Returned(v) == [ok |-> TRUE, value |-> v, err |-> Err("", "")]

\* serde_lexpr::from_value into the caller's return type
from_value(ret, v) ==
    IF \/ ret = "int" /\ IsAtom(v) /\ TokenKind(v[1]) = "int"
       \/ ret = "string" /\ IsAtom(v) /\ IsStrTok(v[1])
       \/ ret = "list" /\ Len(v) >= 2 /\ v[1] = "("
    THEN Returned(v)
    ELSE Failed(Err("SerializationError", ""))

\* the match of call_sync on the response
CallSyncResultMutant(ret, response) ==
    IF response.type = "return" THEN from_value(ret, response.value)
    ELSE IF response.type = "return-error"
         THEN Failed(Err("ProtocolError", response.error))
    ELSE IF response.type = "epc-error"
         THEN Failed(Err("ApplicationError", response.error))
    ELSE Failed(Err("InvalidMessageFormat", "Unexpected response type"))
CallSyncResult(ret, response) ==
    IF response.type = "return" THEN from_value(ret, response.value)
    ELSE IF response.type = "return-error"
         THEN Failed(Err("ApplicationError", response.error))
    ELSE IF response.type = "epc-error"
         THEN Failed(Err("ProtocolError", response.error))
    ELSE Failed(Err("InvalidMessageFormat", "Unexpected response type"))

\* the match of query_methods on the response
QueryMethodsResult(ret, response) ==
    IF response.type = "return" THEN from_value(ret, response.value)
    ELSE Failed(Err("InvalidMessageFormat", "Expected methods response"))

\* send_message's tail: the extracted bytes become the operation's result
Outcome(o, message_bytes) ==
    IF ~Utf8Ok(message_bytes)
    THEN Failed(Err("InvalidMessageFormat", "utf-8"))
    ELSE LET p == from_sexp(message_bytes) IN
         IF ~p.ok THEN Failed(p.err)
         ELSE IF o.op = "call_sync" THEN CallSyncResult(o.ret, p.msg)
         ELSE QueryMethodsResult(o.ret, p.msg)

\* the request of an operation
Request(o, uid) ==
    IF o.op = "call_sync" THEN new_call(uid, o.method, o.args)
    ELSE new_methods(uid)

\* what stands in cgot for "the stream ended"
EndOfStream == <<"<eof>">>

\* call_sync / query_methods up to the first await: next_uid takes the
\* counter's mutex with blocking_lock, which panics on a runtime worker
Call(t, o, ctx) ==
    /\ cpc[t] = "idle"
    /\ next_uid <= NumCallers
    /\ IF ctx = "runtime"
       THEN /\ cpc' = [cpc EXCEPT ![t] = "panicked"]
            /\ UNCHANGED <<next_uid, cuid>>
       ELSE /\ cpc' = [cpc EXCEPT ![t] = "write"]
            /\ cuid' = [cuid EXCEPT ![t] = next_uid]
            /\ next_uid' = next_uid + 1
    /\ cop' = [cop EXCEPT ![t] = [o EXCEPT !.ctx = ctx]]
    /\ UNCHANGED <<wireVars, serverVars, lock, cbuf, cgot, cres, closePc,
                   peerSent, peerSeen, shortReads>>
    /\ UNCHANGED <<pureVars, written, auxVars>>

\* send_message: the frame is written under the stream's mutex
WriteRequest(t) ==
    /\ cpc[t] = "write"
    /\ lock = 0
    /\ IF c2sClosed
       THEN /\ cres' = [cres EXCEPT ![t] = Failed(Err("Io", "broken pipe"))]
            /\ cpc' = [cpc EXCEPT ![t] = "done"]
            /\ UNCHANGED c2s
       ELSE /\ c2s' = c2s \o Frame(to_sexp(Request(cop[t], cuid[t])))
            /\ cpc' = [cpc EXCEPT ![t] = "read"]
            /\ UNCHANGED cres
    /\ UNCHANGED <<c2sClosed, s2c, s2cClosed, serverVars, next_uid, lock,
                   cop, cuid, cbuf, cgot, closePc, peerSent, peerSeen,
                   shortReads>>
    /\ UNCHANGED <<pureVars, written, auxVars>>

\* send_message's loop: self.stream.lock().await
AcquireRead(t) ==
    /\ cpc[t] = "read"
    /\ lock = 0
    /\ lock' = t
    /\ cpc' = [cpc EXCEPT ![t] = "reading"]
    /\ UNCHANGED <<wireVars, serverVars, next_uid, cop, cuid, cbuf, cgot,
                   cres, closePc, peerSent, peerSeen,
                   shortReads>>
    /\ UNCHANGED <<pureVars, written, auxVars>>

\* what one read_buf can return: everything that has arrived, the first
\* frame the peer wrote, or the first ShortReadLen bytes only
FirstFrameLen(stream) ==
    IF ExtractMessage(stream).some
    THEN HeaderLen + Len(ExtractMessage(stream).message)
    ELSE Len(stream)
IsShortRead(stream, k) == k < Len(stream) /\ k # FirstFrameLen(stream)
ReadSizes(stream, short) ==
    {k \in {Len(stream), FirstFrameLen(stream), ShortReadLen} :
        /\ k \in 1..Len(stream)
        /\ IsShortRead(stream, k) => short < MaxShortReads}

\* stream.read_buf(&mut buffer).await completes while the mutex is held; the
\* guard is dropped and the local buffer is searched for a frame
ReadBuf(t) ==
    /\ cpc[t] = "reading"
    /\ lock = t
    /\ lock' = 0
    /\ \/ /\ s2c = <<>>
          /\ s2cClosed
          /\ cres' = [cres EXCEPT ![t] = Failed(Err("ConnectionClosed", ""))]
          /\ cgot' = [cgot EXCEPT ![t] = EndOfStream]
          /\ cpc' = [cpc EXCEPT ![t] = "done"]
          /\ cbuf' = [cbuf EXCEPT ![t] = <<>>]
          /\ UNCHANGED <<s2c, shortReads>>
       \/ \E k \in ReadSizes(s2c, shortReads) :
            LET r == ExtractMessage(cbuf[t] \o SubSeq(s2c, 1, k)) IN
            /\ s2c' = SubSeq(s2c, k + 1, Len(s2c))
            /\ shortReads' = IF IsShortRead(s2c, k) THEN shortReads + 1
                                                    ELSE shortReads
            /\ IF r.some
               THEN /\ cres' = [cres EXCEPT ![t] = Outcome(cop[t], r.message)]
                    /\ cgot' = [cgot EXCEPT ![t] = r.message]
                    /\ cpc' = [cpc EXCEPT ![t] = "done"]
                    /\ cbuf' = [cbuf EXCEPT ![t] = <<>>]
               ELSE /\ cbuf' = [cbuf EXCEPT ![t] = r.rest]
                    /\ cpc' = [cpc EXCEPT ![t] = "read"]
                    /\ UNCHANGED <<cres, cgot>>
    /\ UNCHANGED <<c2s, c2sClosed, s2cClosed, serverVars, next_uid, cop,
                   cuid, closePc, peerSent, peerSeen>>
    /\ UNCHANGED <<pureVars, written, auxVars>>

\* close() is called
CloseInvoke ==
    /\ closePc = "idle"
    /\ closePc' = "waiting"
    /\ UNCHANGED <<wireVars, serverVars, next_uid, lock, cpc, cop, cuid,
                   cbuf, cgot, cres, peerSent, peerSeen,
                   shortReads>>
    /\ UNCHANGED <<pureVars, written, auxVars>>

\* close(): self.stream.lock().await, then stream.shutdown()
CloseShutdown ==
    /\ closePc = "waiting"
    /\ lock = 0
    /\ c2sClosed' = TRUE
    /\ closePc' = "done"
    /\ UNCHANGED <<c2s, s2c, s2cClosed, serverVars, next_uid, lock, cpc,
                   cop, cuid, cbuf, cgot, cres, peerSent, peerSeen,
                   shortReads>>
    /\ UNCHANGED <<pureVars, written, auxVars>>

(***************************************************************************)
(* The peer of a Client: an endpoint that answers each request frame as    *)
(* process_message does and may also write frames of its own               *)
(***************************************************************************)
\* the text written in answer to one request text
AnswerTo(text, reg) ==
    LET pm == process_message(text, reg) IN
    IF pm.kind = "respond" THEN pm.text
    ELSE IF pm.kind = "invoke"
         THEN HandlerReply(pm.call, ValueHandler(pm.call.method, pm.call.args))
    ELSE to_sexp(new_epc_error(0, Display(pm.err)))

PeerAnswer ==
    /\ ~s2cClosed
    /\ ExtractMessage(c2s).some
    /\ c2s' = ExtractMessage(c2s).rest
    /\ s2c' = s2c \o Frame(AnswerTo(ExtractMessage(c2s).message, registry))
    /\ peerSeen' = Append(peerSeen, ExtractMessage(c2s).message)
    /\ UNCHANGED <<c2sClosed, s2cClosed, serverVars, next_uid, lock, cpc,
                   cop, cuid, cbuf, cgot, cres, closePc, peerSent,
                   shortReads>>
    /\ UNCHANGED <<pureVars, written, auxVars>>

\* frames the peer may write unasked
UnsolicitedTexts ==
    {to_sexp(new_call(1, "hello", <<"7">>)),
     to_sexp(new_methods(1)),
     to_sexp(new_epc_error(1, "boom"))}

PeerSend(text) ==
    /\ ~s2cClosed
    /\ Len(peerSent) < MaxUnsolicited
    /\ s2c' = s2c \o Frame(text)
    /\ peerSent' = Append(peerSent, text)
    /\ UNCHANGED <<c2s, c2sClosed, s2cClosed, serverVars, next_uid, lock,
                   cpc, cop, cuid, cbuf, cgot, cres, closePc, peerSeen,
                   shortReads>>
    /\ UNCHANGED <<pureVars, written, auxVars>>

\* the peer drops the connection
PeerClose ==
    /\ ~s2cClosed
    /\ s2cClosed' = TRUE
    /\ UNCHANGED <<c2s, c2sClosed, s2c, serverVars, clientVars>>
    /\ UNCHANGED <<pureVars, written, auxVars>>

\* the peer has read the end of the Client's stream and drops the connection
PeerCloseAfterEof ==
    /\ c2sClosed
    /\ c2s = <<>>
    /\ PeerClose

\* a Client has just connected
ClientInit ==
    /\ WireIdle
    /\ AuxIdle
    /\ PureIdle
    /\ ClientIdle
    /\ registry = InitialRegistry
    /\ impl = "server"
    /\ spc = "read"
    /\ sbuf = <<>>
    /\ expected_length = NoneVal
    /\ cur = NoCall
    /\ reqs = <<>>
    /\ peerFrames = 0

\* callers and a peer that only answers
CallNext ==
    \/ \E t \in Callers : \E o \in CallerOps(t) : \E ctx \in Contexts :
          Call(t, o, ctx)
    \/ \E t \in Callers : WriteRequest(t)
    \/ \E t \in Callers : AcquireRead(t)
    \/ \E t \in Callers : ReadBuf(t)
    \/ PeerAnswer

CallSpec == ClientInit /\ [][CallNext]_vars

\* when ReadBuf(t) and PeerAnswer can happen; each changes the stream it
\* takes bytes from, so these are ENABLED <<ReadBuf(t)>>_vars and
\* ENABLED <<PeerAnswer>>_vars
ReadBufEnabled(t) ==
    /\ cpc[t] = "reading"
    /\ lock = t
    /\ s2c # <<>> \/ s2cClosed
PeerAnswerEnabled == ~s2cClosed /\ ExtractMessage(c2s).some

\* weak fairness of ReadBuf(t) and of PeerAnswer, with the enabling
\* conditions written out
ReadBufFair(t) ==
    \/ []<>(~ReadBufEnabled(t))
    \/ []<><<ReadBuf(t)>>_vars
PeerAnswerFair ==
    \/ []<>(~PeerAnswerEnabled)
    \/ []<><<PeerAnswer>>_vars

\* the runtime keeps polling every caller that can make progress, and the
\* peer answers every request it receives
CallLive ==
    /\ CallSpec
    /\ \A t \in Callers : WF_vars(WriteRequest(t))
    /\ \A t \in Callers : WF_vars(AcquireRead(t))
    /\ \A t \in Callers : ReadBufFair(t)
    /\ PeerAnswerFair

\* one caller, close(), and a peer that may also write unasked or go away
Solo == {t \in Callers : \A u \in Callers : t <= u}

ClientNext ==
    \/ \E t \in Solo : \E o \in CallerOps(t) : \E ctx \in Contexts :
          Call(t, o, ctx)
    \/ \E t \in Solo : WriteRequest(t)
    \/ \E t \in Solo : AcquireRead(t)
    \/ \E t \in Solo : ReadBuf(t)
    \/ CloseInvoke
    \/ CloseShutdown
    \/ PeerAnswer
    \/ \E text \in UnsolicitedTexts : PeerSend(text)
    \/ PeerClose

ClientSpec == ClientInit /\ [][ClientNext]_vars

\* the runtime keeps polling the caller and close(); the peer need not
\* answer, but it drops the connection once it has read its end
ClientLive ==
    /\ ClientSpec
    /\ \A t \in Solo : WF_vars(WriteRequest(t))
    /\ \A t \in Solo : WF_vars(AcquireRead(t))
    /\ \A t \in Solo : ReadBufFair(t)
    /\ WF_vars(CloseShutdown)
    /\ WF_vars(PeerCloseAfterEof)

(***************************************************************************)
(* Properties of the concurrent callers (CallSpec, CallLive)               *)
(***************************************************************************)
\* the response a caller's own request is answered with, and what the
\* operation makes of it
OwnAnswer(t) == AnswerTo(to_sexp(Request(cop[t], cuid[t])), InitialRegistry)
OwnResult(t) == Outcome(cop[t], OwnAnswer(t))

\* C1: every invocation that returned on a response frame returned on the
\* frame whose UID is the UID it sent, never on the response of another call
C1_ResultFromOwnUid ==
    \A t \in Callers :
        (cpc[t] = "done" /\ from_sexp(cgot[t]).ok)
            => from_sexp(cgot[t]).msg.uid = cuid[t]

\* C2: with a peer that answers every request, every call that was sent
\* eventually returns, and returns the result of its own request
C2_EveryCallReturnsOwnResult ==
    \A t \in Callers :
        [](cpc[t] = "read" => <>(cpc[t] = "done" /\ cres[t] = OwnResult(t)))


(***************************************************************************)
(* Properties of a served connection (ServerSpec, ServerLive)              *)
(***************************************************************************)
\* the UID token is one the parser of the serving code reads as a UID
UidAccepted(tok) ==
    IF impl = "server" THEN IsNumTok(tok) /\ AsU64(tok) # NoneVal
    ELSE TokenKind(tok) = "int"

\* a request text in the wire format, a Call or a MethodsQuery, with a UID
\* that the parser accepts
WellFormedRequest(text) ==
    /\ from_sexp(text).ok
    /\ from_sexp(text).msg.type \in {"call", "methods"}
    /\ UidAccepted(text[3])

IsCallOf(text, names) ==
    /\ WellFormedRequest(text)
    /\ from_sexp(text).msg.type = "call"
    /\ from_sexp(text).msg.method \in names

\* the requests whose processing is over
Processed == {i \in 1..Len(reqs) : reqs[i].done}

\* C3: every well-formed Call or MethodsQuery that has been processed was
\* answered with exactly one response, whose UID is the request's UID
C3_OneResponseSameUid ==
    \A i \in Processed :
        WellFormedRequest(reqs[i].text)
            => /\ Len(reqs[i].resp) = 1
               /\ reqs[i].resp[1][3] = reqs[i].text[3]

\* a complete well-formed request has arrived behind a call whose
\* long-running handler has not returned
LaterRequestWaiting ==
    /\ spc = "handling"
    /\ cur.method = "slow"
    /\ ExtractMessage(sbuf \o c2s).some
    /\ WellFormedRequest(ExtractMessage(sbuf \o c2s).message)

\* a request was answered while an earlier one was not
LaterAnsweredFirst ==
    \E i, j \in 1..Len(reqs) :
        i < j /\ ~reqs[i].done /\ reqs[j].resp # <<>>

\* C4: while a long-running handler has not returned, the read loop goes on:
\* a later request that has arrived is answered, or else the handler has
\* returned in the meantime
C4_ReadLoopNotBlocked ==
    [](LaterRequestWaiting => <>(LaterAnsweredFirst \/ spc # "handling"))

\* C6: a processed Call of a method that is not registered was answered with
\* one epc-error frame that carries the call's UID and names the method
C6_UnknownMethodEpcError ==
    \A i \in Processed :
        IsCallOf(reqs[i].text, MethodNames \ InitialRegistry)
            => /\ Len(reqs[i].resp) = 1
               /\ reqs[i].resp[1][2] = "epc-error"
               /\ reqs[i].resp[1][3] = reqs[i].text[3]
               /\ reqs[i].resp[1][4] \in
                     {Quote(Display(Err("MethodNotFound", "nope"))),
                      Quote("Method not found: nope")}

\* the texts that carry the failing handler's message
CarryHandlerMessage ==
    {Quote(HandlerMessage),
     Quote(Display(Err("InvalidArgument", HandlerMessage))),
     Quote("Application error: " \o HandlerMessage)}

\* the response to a call whose handler failed is a return-error
FailAnswered(i) ==
    /\ Len(reqs[i].resp) = 1
    /\ reqs[i].resp[1][2] = "return-error"
    /\ reqs[i].resp[1][4] \in CarryHandlerMessage

\* every well-formed call processed after request i was answered
LaterCallsAnswered(i) ==
    \A j \in Processed :
        (j > i /\ IsCallOf(reqs[j].text, MethodNames))
            => Len(reqs[j].resp) = 1

\* C7: a processed Call whose handler returned an error was answered with
\* one return-error frame carrying the call's UID and the handler's
\* message, and the well-formed calls processed after it were answered too
C7_HandlerErrorReturnError ==
    \A i \in Processed :
        IsCallOf(reqs[i].text, {"fail"})
            => /\ FailAnswered(i)
               /\ reqs[i].resp[1][3] = reqs[i].text[3]
               /\ LaterCallsAnswered(i)

\* C10: the read loop never goes back to waiting for input with six
\* buffered bytes that are no hexadecimal length
C10_BadPrefixTerminates ==
    (/\ expected_length = NoneVal
     /\ Len(sbuf) >= HeaderLen
     /\ ParseLength(sbuf) = NoneVal)
        => spc # "read"


(***************************************************************************)
(* Properties of one caller, close() and the peer (ClientSpec, ClientLive) *)
(***************************************************************************)
Pending(t) == cpc[t] \in {"write", "read", "reading"}

\* a call waits for its response and close() has not been invoked yet
PendingBeforeClose ==
    closePc = "idle" /\ \E t \in Solo : cpc[t] = "reading"

\* C5: from the moment a call is pending, a close() that is invoked
\* completes, and then no call is pending any more
C5_CloseCompletes ==
    [](PendingBeforeClose
          => [](closePc = "waiting"
                   => <>(closePc = "done" /\ \A t \in Solo : ~Pending(t))))

\* a call_sync that has returned, and the frame it returned on
ReturnedCall(t) == cpc[t] = "done" /\ cop[t].op = "call_sync"
GotFrame(t, types) ==
    from_sexp(cgot[t]).ok /\ from_sexp(cgot[t]).msg.type \in types

\* the mapping of everything but a return frame
ErrorsMapped(t) ==
    /\ GotFrame(t, {"return-error"})
          => cres[t] = Failed(Err("ApplicationError",
                                  from_sexp(cgot[t]).msg.error))
    /\ GotFrame(t, {"epc-error"})
          => cres[t] = Failed(Err("ProtocolError",
                                  from_sexp(cgot[t]).msg.error))
    /\ cgot[t] = EndOfStream
          => cres[t] = Failed(Err("ConnectionClosed", ""))
    /\ GotFrame(t, {"call", "methods"})
          => ~cres[t].ok /\ cres[t].err.kind = "InvalidMessageFormat"

\* the result of a return frame has the type the caller asked for
Converts(t) ==
    LET v == from_sexp(cgot[t]).msg.value IN
    \/ cop[t].ret = "int" /\ IsAtom(v) /\ IsNumTok(v[1])
    \/ cop[t].ret = "string" /\ IsAtom(v) /\ IsStrTok(v[1])

\* C8 as stated: a return frame gives Ok(result), and the other frames and
\* the end of the stream give their errors
C8_ResponseMapping ==
    \A t \in Callers :
        ReturnedCall(t)
            => /\ ErrorsMapped(t)
               /\ GotFrame(t, {"return"})
                     => cres[t] = Returned(from_sexp(cgot[t]).msg.value)

\* C8, amended: a return frame gives Ok(result) when the result has the
\* requested type and a serialization error when it has not; the other
\* frames and the end of the stream give their errors
C8_ResponseMappingTyped ==
    \A t \in Callers :
        ReturnedCall(t)
            => /\ ErrorsMapped(t)
               /\ (GotFrame(t, {"return"}) /\ Converts(t))
                     => cres[t] = Returned(from_sexp(cgot[t]).msg.value)
               /\ (GotFrame(t, {"return"}) /\ ~Converts(t))
                     => /\ ~cres[t].ok
                        /\ cres[t].err.kind = "SerializationError"

\* a call_sync has returned an Application error on a return-error frame
C8_Witness ==
    \E t \in Callers :
        /\ ReturnedCall(t)
        /\ GotFrame(t, {"return-error"})
        /\ cres[t].err.kind = "ApplicationError"

\* the peer has sent a Call of a method registered on the Client
PeerCalled ==
    \E i \in 1..Len(peerSent) :
        /\ from_sexp(peerSent[i]).ok
        /\ from_sexp(peerSent[i]).msg.type = "call"
        /\ from_sexp(peerSent[i]).msg.method \in ClientRegistry

\* the Client has written a return frame
ClientReturned ==
    \/ \E i \in 1..Len(c2s) : c2s[i] = "return"
    \/ \E i \in 1..Len(peerSeen) : peerSeen[i][2] = "return"

\* C9: a Call the peer sent for a registered client method is eventually
\* answered by the Client with a return frame
C9_PeerCallAnswered == [](PeerCalled => <>ClientReturned)


(***************************************************************************)
(* Properties of frames that are no request (ServerSpec)                   *)
(***************************************************************************)
\* the body is no recognizable message
Unrecognizable(text) == ~Utf8Ok(text) \/ ~from_sexp(text).ok

\* the one response to request i is an epc-error frame with UID 0 and a
\* description
EpcErrorZero(i) ==
    /\ Len(reqs[i].resp) = 1
    /\ reqs[i].resp[1][2] = "epc-error"
    /\ reqs[i].resp[1][3] = "0"
    /\ IsStrTok(reqs[i].resp[1][4])
    /\ reqs[i].resp[1][4] # Quote("")

\* the connection task has not ended on the body of a frame
NotEndedOnBody == spc = "failed" => expected_length = NoneVal

\* C11: every processed frame whose body is no recognizable message was
\* answered with one epc-error frame with UID 0 that describes the failure,
\* and no such body ends the connection
C11_MalformedBodyEpcError ==
    /\ \A i \in Processed : Unrecognizable(reqs[i].text) => EpcErrorZero(i)
    /\ NotEndedOnBody


\* the frame is a response: a return, a return-error or an epc-error
IsResponse(text) ==
    /\ from_sexp(text).ok
    /\ from_sexp(text).msg.type \in {"return", "return-error", "epc-error"}

\* C12: a processed response frame, for which the serving side has no
\* pending call, caused nothing to be written, and the well-formed calls
\* processed after it were answered
C12_StrayResponseDropped ==
    \A i \in Processed :
        IsResponse(reqs[i].text)
            => reqs[i].resp = <<>> /\ LaterCallsAnswered(i)


(***************************************************************************)
(* The framer applied on its own (FramerSpec)                              *)
(***************************************************************************)
\* payloads: every length up to MaxPayloadLen, filled with a letter, with a
\* hexadecimal digit or with a byte that is no UTF-8
PayloadUnits == {"a", "0", BadByte}
Payloads ==
    {[i \in 1..n |-> u] : n \in 0..MaxPayloadLen, u \in PayloadUnits}

\* texts the serving code frames, and messages ServerConnectionHandler sends
ServerTexts ==
    {AnswerTo(t, InitialRegistry) : t \in PeerTexts \cup MalformedTexts}
SentMessages ==
    {OldMsg("return", "1", "", <<>>, <<"7">>),
     OldMsg("return-error", "1", "", <<>>, <<Quote("Application error: boom")>>),
     OldMsg("return", "1", "", <<>>, <<"(", "(", "echo", Quote(""), Quote(""), ")", ")">>)}

\* byte streams: frames followed by more bytes, a prefix with an upper-case
\* digit, a prefix with a sign, prefixes that are no number
Streams ==
    {Frame(b) \o t : b \in {<<>>, <<"a">>, <<"0", "0">>},
                     t \in {<<>>, <<"x">>, Frame(<<"a">>)}}
    \cup {<<"0", "0", "0", "0", "0", "A">> \o [i \in 1..11 |-> "a"],
          <<"+", "0", "0", "0", "0", "1", "a", "x">>,
          <<"0", "0", BadByte, "0", "0", "1", "a">>,
          BadPrefixFrame}
Buffers == UNION {{SubSeq(f, 1, k) : k \in 0..Len(f)} : f \in Streams}

FramerInputs ==
    {<<"frame", b>> : b \in Payloads \cup ServerTexts}
    \cup {<<"round_trip", b>> : b \in Payloads}
    \cup {<<"extract_message", b>> : b \in Buffers}
    \cup {<<"send_message", m>> : m \in SentMessages}
    \cup {<<"frame_large", <<"a">>>>}

FramerInit ==
    /\ WireIdle
    /\ AuxIdle
    /\ ClientIdle
    /\ registry = InitialRegistry
    /\ impl = "server"
    /\ spc = "read"
    /\ sbuf = <<>>
    /\ expected_length = NoneVal
    /\ cur = NoCall
    /\ reqs = <<>>
    /\ peerFrames = 0
    /\ pout = NotApplied
    /\ \E input \in FramerInputs :
           /\ pop = input[1]
           /\ pin = input[2]

\* Framer::frame(message)
ApplyFrame ==
    /\ pop = "frame"
    /\ pout = NotApplied
    /\ pout' = <<Frame(pin)>>
    /\ UNCHANGED <<wireVars, serverVars, clientVars, pop, pin, written,
                   auxVars>>

\* Framer::frame(message) for the shortest message whose length has seven
\* digits, pin[1] repeated 16^6 times; of this result the state keeps the
\* length, the units before the message and whether the message follows them
ApplyFrameLarge ==
    /\ pop = "frame_large"
    /\ pout = NotApplied
    /\ \E message \in {[i \in 1..Pow16(HeaderLen) |-> pin[1]]} :
       \E framed \in {Frame(message)} :
           LET split == Len(framed) - Len(message) IN
           pout' = <<[total |-> Len(framed),
                      prefix |-> SubSeq(framed, 1, split),
                      followed |->
                          SubSeq(framed, split + 1, Len(framed)) = message]>>
    /\ UNCHANGED <<wireVars, serverVars, clientVars, pop, pin, written,
                   auxVars>>

\* Framer::extract_message(&mut buf)
ApplyExtractMessage ==
    /\ pop = "extract_message"
    /\ pout = NotApplied
    /\ pout' = <<ExtractMessage(pin)>>
    /\ UNCHANGED <<wireVars, serverVars, clientVars, pop, pin, written,
                   auxVars>>

\* Framer::extract_message on a buffer that holds Framer::frame(message)
ApplyRoundTrip ==
    /\ pop = "round_trip"
    /\ pout = NotApplied
    /\ pout' = <<ExtractMessage(Frame(pin))>>
    /\ UNCHANGED <<wireVars, serverVars, clientVars, pop, pin, written,
                   auxVars>>

\* ServerConnectionHandler::send_message(message)
ApplySendMessage ==
    /\ pop = "send_message"
    /\ pout = NotApplied
    /\ pout' = <<HandlerFrame(pin)>>
    /\ UNCHANGED <<wireVars, serverVars, clientVars, pop, pin, written,
                   auxVars>>

FramerNext ==
    \/ ApplyFrame
    \/ ApplyFrameLarge
    \/ ApplyExtractMessage
    \/ ApplyRoundTrip
    \/ ApplySendMessage

FramerSpec == FramerInit /\ [][FramerNext]_vars

Done(op) == pop = op /\ pout # NotApplied

\* C13: extract_message on a buffer holding exactly frame(b) returns b and
\* leaves the buffer empty
C13_FrameRoundTrip ==
    Done("round_trip")
        => pout[1] = [some |-> TRUE, message |-> pin, rest |-> <<>>]

\* a round trip of a payload of MaxPayloadLen units was made
C13_Witness == Done("round_trip") /\ Len(pin) = MaxPayloadLen


\* the buffer is shorter than a prefix, or than the frame its prefix declares
Incomplete(buf) ==
    \/ Len(buf) < HeaderLen
    \/ /\ ParseLength(buf) # NoneVal
       /\ Len(buf) < HeaderLen + ParseLength(buf)

\* C14: extract_message on an incomplete buffer returns nothing and leaves the
\* buffer unchanged; when it returns a message it has removed exactly the
\* first 6 + length bytes and left every following byte in place
C14_ExtractEffect ==
    Done("extract_message") =>
        LET r == pout[1] IN
        /\ Incomplete(pin) => ~r.some
        /\ ~r.some => r.rest = pin
        /\ r.some =>
            /\ ParseLength(pin) # NoneVal
            /\ r.message = SubSeq(pin, HeaderLen + 1, HeaderLen + ParseLength(pin))
            /\ Len(r.message) = ParseLength(pin)
            /\ r.rest = SubSeq(pin, HeaderLen + ParseLength(pin) + 1, Len(pin))
            /\ r.message \o r.rest = SubSeq(pin, HeaderLen + 1, Len(pin))

\* a message was extracted from a buffer that holds more bytes after the frame
C14_Witness ==
    /\ Done("extract_message")
    /\ pout[1].some
    /\ pout[1].message # <<>>
    /\ pout[1].rest # <<>>


\* the payload of a frame
Payload(f) == SubSeq(f, HeaderLen + 1, Len(f))

\* every frame written so far is a length prefix followed by that many bytes
WellFormedFrames == \A i \in 1..Len(written) : written[i] # BadPrefixFrame

\* the payloads extracted so far are the first payloads written, in order
ExtractedInOrder ==
    /\ Len(reqs) <= Len(written)
    /\ \A i \in 1..Len(reqs) : reqs[i].text = Payload(written[i])

\* the read loop waits for bytes, or has seen the end of the stream, with no
\* byte left in flight
NothingToRead == spc \in {"read", "done"} /\ c2s = <<>>

\* C15: whatever the splitting into reads, the read loop extracts exactly the
\* payloads of the well-formed frames written, in order: what it has
\* extracted is an initial part of what was written, and once every byte has
\* been read nothing written is missing
C15_ReadLoopExtractsAll ==
    WellFormedFrames =>
        /\ ExtractedInOrder
        /\ NothingToRead => Len(reqs) = Len(written)


LowerHexDigits == {HexChars[i] : i \in 1..16}

\* p is six lower-case hexadecimal digits that encode n
SixDigitPrefix(p, n) ==
    /\ Len(p) = HeaderLen
    /\ \A i \in 1..Len(p) : p[i] \in LowerHexDigits
    /\ FromStrRadix16(p) = n

\* C16: frame(b) is six lower-case hexadecimal digits that encode len(b),
\* followed by b, len(b) + 6 bytes in all, for every payload b; and the prefix
\* of every frame a server writes is six digits that encode the length of the
\* payload after it
C16_FrameShape ==
    /\ Done("frame") =>
        /\ Len(pout[1]) = Len(pin) + HeaderLen
        /\ SixDigitPrefix(SubSeq(pout[1], 1, HeaderLen), Len(pin))
        /\ Payload(pout[1]) = pin
    /\ Done("frame_large") =>
        /\ pout[1].total = Pow16(HeaderLen) + HeaderLen
        /\ SixDigitPrefix(pout[1].prefix, Pow16(HeaderLen))
        /\ pout[1].followed
    /\ Done("send_message") =>
        SixDigitPrefix(SubSeq(pout[1], 1, HeaderLen), Len(Payload(pout[1])))


(***************************************************************************)
(* EpcValue (src/src/types.rs) and the codec of src/src/message.rs at the  *)
(* level of characters: a text is a sequence of one-character strings.     *)
(* A float is kept as its number of tenths.                                *)
(***************************************************************************)
Val(k, s, n, items) == [k |-> k, s |-> s, n |-> n, items |-> items]

EpcNil == Val("nil", <<>>, 0, <<>>)
EpcBool(b) == Val("bool", <<>>, IF b THEN 1 ELSE 0, <<>>)
EpcInt(n) == Val("int", <<>>, n, <<>>)
EpcFloat(tenths) == Val("float", <<>>, tenths, <<>>)
EpcString(s) == Val("string", s, 0, <<>>)
EpcSymbol(s) == Val("symbol", s, 0, <<>>)
EpcList(items) == Val("list", <<>>, 0, items)
EpcDict == Val("dict", <<>>, 0, <<>>)

DigitChars == <<"0", "1", "2", "3", "4", "5", "6", "7", "8", "9">>

\* i64::to_string
RECURSIVE NatChars(_)
NatChars(n) ==
    IF n < 10 THEN <<DigitChars[n + 1]>>
    ELSE Append(NatChars(n \div 10), DigitChars[(n % 10) + 1])

IntChars(n) == IF n < 0 THEN <<"-">> \o NatChars(0 - n) ELSE NatChars(n)

\* f64::to_string: a float without fraction is written without a point
FloatChars(tenths) ==
    LET whole == IF tenths < 0 THEN 0 - ((0 - tenths) \div 10)
                 ELSE tenths \div 10
        frac == (IF tenths < 0 THEN 0 - tenths ELSE tenths) % 10
    IN  IF frac = 0 THEN IntChars(whole)
        ELSE (IF tenths < 0 /\ whole = 0 THEN <<"-">> ELSE <<>>)
             \o IntChars(whole) \o <<".">> \o NatChars(frac)

\* s.replace("\"", "\\\"")
RECURSIVE EscapeQuotes(_)
EscapeQuotes(s) ==
    IF Len(s) = 0 THEN <<>>
    ELSE (IF Head(s) = "\"" THEN <<"\\", "\"">> ELSE <<Head(s)>>)
         \o EscapeQuotes(Tail(s))

\* items.join(" ")
RECURSIVE Join(_)
Join(parts) ==
    IF Len(parts) = 0 THEN <<>>
    ELSE IF Len(parts) = 1 THEN parts[1]
    ELSE parts[1] \o <<" ">> \o Join(Tail(parts))

\* Message::serialize_value
RECURSIVE SerializeValue(_)
SerializeValue(v) ==
    IF v.k = "nil" THEN <<"n", "i", "l">>
    ELSE IF v.k = "bool" THEN (IF v.n = 1 THEN <<"t">> ELSE <<"n", "i", "l">>)
    ELSE IF v.k = "int" THEN IntChars(v.n)
    ELSE IF v.k = "float" THEN FloatChars(v.n)
    ELSE IF v.k = "string" THEN <<"\"">> \o EscapeQuotes(v.s) \o <<"\"">>
    ELSE IF v.k = "symbol" THEN v.s
    ELSE IF v.k = "list"
         THEN <<"(">>
              \o Join([i \in 1..Len(v.items) |-> SerializeValue(v.items[i])])
              \o <<")">>
    ELSE <<"n", "i", "l">>


IsDigit(ch) == \E i \in 1..10 : DigitChars[i] = ch
DigitValue(ch) == (CHOOSE i \in 1..10 : DigitChars[i] = ch) - 1

AllDigits(s) == Len(s) > 0 /\ \A i \in 1..Len(s) : IsDigit(s[i])

RECURSIVE NatValue(_)
NatValue(s) ==
    IF Len(s) = 0 THEN 0
    ELSE NatValue(SubSeq(s, 1, Len(s) - 1)) * 10 + DigitValue(s[Len(s)])

\* an optional sign followed by digits
Unsigned(tok) ==
    IF Len(tok) > 0 /\ tok[1] \in {"+", "-"} THEN Tail(tok) ELSE tok
Negative(tok) == Len(tok) > 0 /\ tok[1] = "-"
IsIntegerText(tok) == AllDigits(Unsigned(tok))
IntegerValue(tok) ==
    IF Negative(tok) THEN 0 - NatValue(Unsigned(tok))
    ELSE NatValue(Unsigned(tok))

\* digits, a point, digits: the decimal texts f64::to_string writes here
PointAt(tok) == CHOOSE i \in 1..Len(tok) : tok[i] = "."
IsDecimalText(tok) ==
    LET u == Unsigned(tok) IN
    /\ \E i \in 1..Len(u) : u[i] = "."
    /\ AllDigits(SubSeq(u, 1, PointAt(u) - 1))
    /\ Len(u) = PointAt(u) + 1
    /\ IsDigit(u[Len(u)])
DecimalTenths(tok) ==
    LET u == Unsigned(tok)
        tenths == NatValue(SubSeq(u, 1, PointAt(u) - 1)) * 10
                  + DigitValue(u[Len(u)])
    IN  IF Negative(tok) THEN 0 - tenths ELSE tenths

\* Message::parse_token: nil, t, then i64, then f64 (an integer that does
\* not fit i64, or a decimal), and a symbol otherwise
ParseToken(token) ==
    IF token = <<"n", "i", "l">> THEN EpcNil
    ELSE IF token = <<"t">> THEN EpcBool(TRUE)
    ELSE IF IsIntegerText(token)
         THEN IF IntegerValue(token) >= I64Min /\ IntegerValue(token) <= I64Max
              THEN EpcInt(IntegerValue(token))
              ELSE EpcFloat(IntegerValue(token) * 10)
    ELSE IF IsDecimalText(token) THEN EpcFloat(DecimalTenths(token))
    ELSE EpcSymbol(token)

\* char::is_whitespace, for the characters of the model
IsWhitespace(ch) == ch \in {" ", "\t", "\n"}

\* Message::read_string_literal from the opening quote at position i - 1:
\* [ok, s, next]
RECURSIVE ReadStringLiteral(_, _, _, _)
ReadStringLiteral(c, i, escaped, s) ==
    IF i > Len(c) THEN [ok |-> FALSE, s |-> s, next |-> i]
    ELSE IF escaped THEN ReadStringLiteral(c, i + 1, FALSE, Append(s, c[i]))
    ELSE IF c[i] = "\\" THEN ReadStringLiteral(c, i + 1, TRUE, s)
    ELSE IF c[i] = "\"" THEN [ok |-> TRUE, s |-> s, next |-> i + 1]
    ELSE ReadStringLiteral(c, i + 1, FALSE, Append(s, c[i]))

\* Message::read_nested_list from the opening parenthesis at position i:
\* parentheses are counted wherever they stand
RECURSIVE ReadNestedList(_, _, _, _)
ReadNestedList(c, i, level, s) ==
    IF i > Len(c) THEN [ok |-> level = 0, s |-> s, next |-> i]
    ELSE IF c[i] = "("
         THEN ReadNestedList(c, i + 1, level + 1, Append(s, c[i]))
    ELSE IF c[i] = ")"
         THEN IF level - 1 = 0
              THEN [ok |-> TRUE, s |-> Append(s, c[i]), next |-> i + 1]
              ELSE ReadNestedList(c, i + 1, level - 1, Append(s, c[i]))
    ELSE ReadNestedList(c, i + 1, level, Append(s, c[i]))

\* Message::read_token
RECURSIVE ReadToken(_, _, _)
ReadToken(c, i, s) ==
    IF i > Len(c) \/ IsWhitespace(c[i]) \/ c[i] \in {"(", ")"}
    THEN [s |-> s, next |-> i]
    ELSE ReadToken(c, i + 1, Append(s, c[i]))

\* str::trim
RECURSIVE TrimChars(_)
TrimChars(c) ==
    IF Len(c) = 0 THEN c
    ELSE IF IsWhitespace(c[1]) THEN TrimChars(Tail(c))
    ELSE IF IsWhitespace(c[Len(c)]) THEN TrimChars(SubSeq(c, 1, Len(c) - 1))
    ELSE c

Parsed(status, items) == [status |-> status, items |-> items]

\* Message::parse_sexpr_list and its loop over the characters between the
\* outer parentheses.  status is "ok", "err", or "hang": on a closing
\* parenthesis read_token returns the empty token and consumes nothing, and
\* the loop sees the same character again
RECURSIVE ParseSexprList(_)
RECURSIVE ParseInner(_, _, _)
ParseInner(c, i, result) ==
    IF i > Len(c) THEN Parsed("ok", result)
    ELSE IF c[i] \in {" ", "\t", "\n"} THEN ParseInner(c, i + 1, result)
    ELSE IF c[i] = "("
         THEN LET r == ReadNestedList(c, i, 0, <<>>) IN
              IF ~r.ok THEN Parsed("err", <<>>)
              ELSE LET sub == ParseSexprList(r.s) IN
                   IF sub.status # "ok" THEN Parsed(sub.status, <<>>)
                   ELSE ParseInner(c, r.next,
                                   Append(result, EpcList(sub.items)))
    ELSE IF c[i] = "\""
         THEN LET r == ReadStringLiteral(c, i + 1, FALSE, <<>>) IN
              IF ~r.ok THEN Parsed("err", <<>>)
              ELSE ParseInner(c, r.next, Append(result, EpcString(r.s)))
    ELSE LET r == ReadToken(c, i, <<>>) IN
         IF r.s = <<>> THEN Parsed("hang", <<>>)
         ELSE ParseInner(c, r.next, Append(result, ParseToken(r.s)))

ParseSexprList(data) ==
    LET trimmed == TrimChars(data) IN
    IF Len(trimmed) = 0 \/ trimmed[1] # "(" \/ trimmed[Len(trimmed)] # ")"
    THEN Parsed("err", <<>>)
    ELSE ParseInner(SubSeq(trimmed, 2, Len(trimmed) - 1), 1, <<>>)


\* the characters of the message types
TypeChars(msg_type) ==
    IF msg_type = "call" THEN <<"c", "a", "l", "l">>
    ELSE IF msg_type = "return" THEN <<"r", "e", "t", "u", "r", "n">>
    ELSE IF msg_type = "return-error"
         THEN <<"r", "e", "t", "u", "r", "n", "-", "e", "r", "r", "o", "r">>
    ELSE IF msg_type = "epc-error"
         THEN <<"e", "p", "c", "-", "e", "r", "r", "o", "r">>
    ELSE <<"m", "e", "t", "h", "o", "d", "s">>

\* Message of src/src/message.rs with its payload as an EpcValue
EpcMessage(msg_type, session_id, payload) ==
    [msg_type |-> msg_type, session_id |-> session_id, payload |-> payload]

\* Message::new_call and Message::new_return; the session id is given
NewCall(session_id, method_name, args) ==
    EpcMessage("call", session_id,
               EpcList(<<EpcString(method_name), EpcList(args)>>))
NewReturn(session_id, value) == EpcMessage("return", session_id, value)

\* self.session_id.parse().unwrap_or(0), an i32
SessionIdValue(session_id) ==
    IF IsIntegerText(session_id)
       /\ IntegerValue(session_id) >= I32Min
       /\ IntegerValue(session_id) <= I32Max
    THEN IntegerValue(session_id)
    ELSE 0

\* Message::to_sexpr: every argument of a call is an element of its own
ToSexpr(m) ==
    IF m.msg_type = "call"
    THEN LET method_name == m.payload.items[1].s
             args == m.payload.items[2].items
         IN  <<"(">>
             \o Join(<<TypeChars("call"), IntChars(SessionIdValue(m.session_id)),
                       method_name>>
                     \o [i \in 1..Len(args) |-> SerializeValue(args[i])])
             \o <<")">>
    ELSE <<"(">>
         \o Join(<<TypeChars(m.msg_type),
                   IntChars(SessionIdValue(m.session_id)),
                   SerializeValue(m.payload)>>)
         \o <<")">>

MessageTypes == {"call", "return", "return-error", "epc-error", "methods"}

NoMessage(status) == [status |-> status, msg |-> EpcMessage("", <<>>, EpcNil)]

\* Message::from_sexpr: status "ok", "err" or "hang"
FromSexpr(data) ==
    LET r == ParseSexprList(data)
        list == r.items
    IN  IF r.status # "ok" THEN NoMessage(r.status)
        ELSE IF Len(list) < 3 THEN NoMessage("err")
        ELSE IF ~(list[1].k = "symbol"
                  /\ \E ty \in MessageTypes : TypeChars(ty) = list[1].s)
             THEN NoMessage("err")
        ELSE IF list[2].k \notin {"string", "int"} THEN NoMessage("err")
        ELSE LET msg_type ==
                     CHOOSE ty \in MessageTypes : TypeChars(ty) = list[1].s
                 session_id == IF list[2].k = "string" THEN list[2].s
                               ELSE IntChars(list[2].n)
                 rest == SubSeq(list, 4, Len(list))
                 \* a single argument that is a list is replaced by its items
                 args == IF Len(rest) = 1 /\ rest[1].k = "list"
                         THEN rest[1].items ELSE rest
             IN  IF msg_type = "call"
                 THEN IF list[3].k \in {"symbol", "string"}
                      THEN [status |-> "ok",
                            msg |-> NewCall(session_id, list[3].s, args)]
                      ELSE NoMessage("err")
                 ELSE [status |-> "ok",
                       msg |-> EpcMessage(msg_type, session_id, list[3])]

\* the handler the tests register as "echo": its first argument, or Nil
EchoHandler(args) == IF Len(args) = 0 THEN EpcNil ELSE args[1]

\* one call of "echo" with the single argument v through this codec: the
\* call is serialized, parsed by ServerConnectionHandler, its return
\* serialized with the line end send_message adds, and parsed again
EchoCall(v) ==
    LET sid == <<"1">>
        request == FromSexpr(ToSexpr(NewCall(sid, <<"e", "c", "h", "o">>, <<v>>)))
        args == request.msg.payload.items[2].items
        response == FromSexpr(Append(
                        ToSexpr(NewReturn(request.msg.session_id,
                                          EchoHandler(args))), "\n"))
    IN  IF request.status # "ok" THEN [status |-> request.status, value |-> EpcNil]
        ELSE IF response.status # "ok"
             THEN [status |-> response.status, value |-> EpcNil]
        ELSE [status |-> "ok", value |-> response.msg.payload]

\* a value is written into a return message and read back
ReturnRoundTrip(v) ==
    LET response == FromSexpr(Append(ToSexpr(NewReturn(<<"1">>, v)), "\n"))
    IN  [status |-> response.status, value |-> response.msg.payload]


(***************************************************************************)
(* The two codecs applied on their own (CodecSpec)                         *)
(***************************************************************************)
\* UIDs: the smallest, the largest of i64, the first beyond it, the largest
CodecUids == {0, 1, I64Max, I64Max + 1, U64Max}

\* one value each: a number, a string, the empty list, a list of two
CodecValues ==
    {<<"7">>, <<Quote("hi")>>, <<"(", ")">>, <<"(", "7", Quote("hi"), ")">>}

\* messages of src/src/protocol.rs
Messages ==
    {new_call(u, m, a) : u \in CodecUids, m \in {"echo", "nope"},
                         a \in CodecValues}
    \cup {new_return(u, v) : u \in CodecUids, v \in CodecValues}
    \cup {new_return_error(u, e) : u \in CodecUids, e \in {"", "boom"}}
    \cup {new_epc_error(u, e) : u \in CodecUids, e \in {"", "boom"}}
    \cup {new_methods(u) : u \in CodecUids}

\* calls of src/src/message.rs (Message::new_call) with no, one and two
\* arguments, and with one argument that is a list
SessionIds == {"1", ToString(I32Max + 1)}
OldCalls ==
    {OldMsg("call", sid, "echo", args, <<>>) :
        sid \in SessionIds,
        args \in {<<>>, << <<"7">> >>, << <<"7">>, <<Quote("hi")>> >>,
                  << <<"(", "7", Quote("hi"), ")">> >>}}

\* second elements of a list: numbers in and out of the range of u64, a
\* string, a symbol, a list
SecondItems ==
    {<<ToString(n)>> : n \in CodecUids \cup {0 - 1, I64Min, U64Max + 1}}
    \cup {<<Quote("hi")>>, <<"echo">>, <<"(", "7", ")">>}

\* further elements
MoreItems == {<<"echo">>, <<Quote("boom")>>, <<"7">>, <<"(", "7", ")">>}

Kinds == {"call", "return", "return-error", "epc-error", "methods"}

ListOf(items) == <<"(">> \o Flatten(items) \o <<")">>

\* lists of up to five elements
Lists ==
    {ListOf(<<>>)}
    \cup {ListOf(<< <<k>> >>) : k \in Kinds}
    \cup {ListOf(<< <<k>>, x >>) : k \in Kinds \cup {"bogus"}, x \in SecondItems}
    \cup {ListOf(<< k, <<"1">> >>) : k \in {<<Quote("hi")>>, <<"7">>, <<"(", "7", ")">>}}
    \cup {ListOf(<< <<k>>, x, y >>) :
            k \in Kinds \cup {"bogus"}, x \in SecondItems, y \in MoreItems}
    \cup {ListOf(<< <<k>>, <<"1">>, y, z >>) :
            k \in Kinds \cup {"bogus"}, y \in MoreItems, z \in MoreItems}
    \cup {ListOf(<< <<k>>, <<"1">>, <<"echo">>, <<"7">>, z >>) :
            k \in Kinds, z \in MoreItems}

\* a character that is not ASCII
NonAscii == "<e9>"

\* strings of up to MaxStringLen characters
StringChars == {"a", "\"", "\\", "(", ")", "\n", "\t", NonAscii}
StringTexts ==
    UNION {[1..n -> StringChars] : n \in 0..MaxStringLen}

\* names of symbols, among them the symbols t and nil and a numeral
SymbolNames ==
    {<<"t">>, <<"n", "i", "l">>, <<"f", "o", "o">>, <<"a", "-", "b">>,
     <<"7">>}

\* values without strings: atoms of every kind, and lists that are empty,
\* flat (the list of test_echo_list) or nested
PlainValues ==
    {EpcNil, EpcBool(TRUE), EpcBool(FALSE), EpcInt(7), EpcInt(0 - 1),
     EpcFloat(32), EpcFloat(10), EpcDict,
     EpcList(<<>>),
     EpcList(<<EpcInt(1), EpcString(<<"2">>), EpcFloat(32), EpcNil>>),
     EpcList(<<EpcList(<<EpcInt(1)>>)>>),
     EpcList(<<EpcList(<<>>)>>),
     EpcList(<<EpcInt(1), EpcList(<<EpcInt(2), EpcList(<<EpcInt(3)>>)>>)>>)}

\* a value at the top level, in a list, and in a list in a list
Nestings(v) == {v, EpcList(<<v>>), EpcList(<<EpcList(<<v>>)>>)}

StringValues == UNION {Nestings(EpcString(s)) : s \in StringTexts}
SymbolValues ==
    UNION {Nestings(EpcSymbol(s)) \cup Nestings(EpcString(s)) :
              s \in SymbolNames}

CodecInputs ==
    {<<"round_trip", m>> : m \in Messages}
    \cup {<<"echo", v>> : v \in PlainValues \cup SymbolValues}
    \cup {<<"return_round_trip", v>> : v \in StringValues \cup SymbolValues}
    \cup {<<"to_sexp", m>> : m \in Messages}
    \cup {<<"to_sexpr", m>> : m \in OldCalls}
    \cup {<<"from_sexp", t>> : t \in Lists}
    \cup {<<"from_sexpr", t>> : t \in Lists}

CodecInit ==
    /\ WireIdle
    /\ AuxIdle
    /\ ClientIdle
    /\ registry = InitialRegistry
    /\ impl = "server"
    /\ spc = "read"
    /\ sbuf = <<>>
    /\ expected_length = NoneVal
    /\ cur = NoCall
    /\ reqs = <<>>
    /\ peerFrames = 0
    /\ pout = NotApplied
    /\ \E input \in CodecInputs :
           /\ pop = input[1]
           /\ pin = input[2]

\* Message::from_sexp(&msg.to_sexp().unwrap()) (src/src/protocol.rs)
ApplyToSexpFromSexp ==
    /\ pop = "round_trip"
    /\ pout = NotApplied
    /\ pout' = <<from_sexp(to_sexp(pin))>>
    /\ UNCHANGED <<wireVars, serverVars, clientVars, pop, pin, written,
                   auxVars>>

\* Message::to_sexp (src/src/protocol.rs)
ApplyToSexp ==
    /\ pop = "to_sexp"
    /\ pout = NotApplied
    /\ pout' = <<to_sexp(pin)>>
    /\ UNCHANGED <<wireVars, serverVars, clientVars, pop, pin, written,
                   auxVars>>

\* Message::to_sexpr (src/src/message.rs)
ApplyToSexpr ==
    /\ pop = "to_sexpr"
    /\ pout = NotApplied
    /\ pout' = <<to_sexpr(pin)>>
    /\ UNCHANGED <<wireVars, serverVars, clientVars, pop, pin, written,
                   auxVars>>

\* Message::from_sexp (src/src/protocol.rs)
ApplyFromSexp ==
    /\ pop = "from_sexp"
    /\ pout = NotApplied
    /\ pout' = <<from_sexp(pin)>>
    /\ UNCHANGED <<wireVars, serverVars, clientVars, pop, pin, written,
                   auxVars>>

\* Message::from_sexpr (src/src/message.rs)
ApplyFromSexpr ==
    /\ pop = "from_sexpr"
    /\ pout = NotApplied
    /\ pout' = <<from_sexpr(pin)>>
    /\ UNCHANGED <<wireVars, serverVars, clientVars, pop, pin, written,
                   auxVars>>

\* a call of echo with one argument (src/src/message.rs,
\* src/src/server_handler.rs)
ApplyEchoCall ==
    /\ pop = "echo"
    /\ pout = NotApplied
    /\ pout' = <<EchoCall(pin)>>
    /\ UNCHANGED <<wireVars, serverVars, clientVars, pop, pin, written,
                   auxVars>>

\* Message::from_sexpr of the Message::to_sexpr of a return
ApplyReturnRoundTrip ==
    /\ pop = "return_round_trip"
    /\ pout = NotApplied
    /\ pout' = <<ReturnRoundTrip(pin)>>
    /\ UNCHANGED <<wireVars, serverVars, clientVars, pop, pin, written,
                   auxVars>>

CodecNext ==
    \/ ApplyEchoCall
    \/ ApplyReturnRoundTrip
    \/ ApplyToSexpFromSexp
    \/ ApplyToSexp
    \/ ApplyToSexpr
    \/ ApplyFromSexp
    \/ ApplyFromSexpr

CodecSpec == CodecInit /\ [][CodecNext]_vars

\* C17: from_sexp(to_sexp(m)) succeeds and equals m, for every message m of
\* the five kinds and every UID of the unsigned 64-bit range
C17_MessageRoundTrip ==
    Done("round_trip") => pout[1].ok /\ pout[1].msg = pin


\* the number of elements of a message of each kind
Arity(kind) == IF kind = "call" THEN 4 ELSE IF kind = "methods" THEN 2 ELSE 3

\* the elements of the list a text is
Elements(text) == ReadValue(text).items

\* a list of the number of elements its kind has whose second element is a
\* non-negative integer
RightShape(items) ==
    /\ Len(items) >= 2
    /\ IsAtom(items[1])
    /\ items[1][1] \in Kinds
    /\ Len(items) = Arity(items[1][1])
    /\ IsAtom(items[2])
    /\ IsNumTok(items[2][1])
    /\ NumVal(items[2][1]) >= 0

\* C18: from_sexp accepts a list only when it has 4 elements for call, 3 for
\* return, return-error and epc-error, 2 for methods, and its second element
\* is a non-negative integer; for every other list it returns
\* InvalidMessageFormat
C18_StrictArity ==
    Done("from_sexp") =>
        /\ pout[1].ok =>
            /\ RightShape(Elements(pin))
            /\ pout[1].msg.type = Elements(pin)[1][1]
            /\ pout[1].msg.uid = NumVal(Elements(pin)[2][1])
        /\ ~RightShape(Elements(pin)) =>
            /\ ~pout[1].ok
            /\ pout[1].err.kind = "InvalidMessageFormat"

\* a call with a fifth element, whose UID is a non-negative integer, was
\* rejected
C18_Witness ==
    /\ Done("from_sexp")
    /\ Len(Elements(pin)) = 5
    /\ Elements(pin)[1] = <<"call">>
    /\ ~pout[1].ok


\* the text is (methods UID) with a UID of the unsigned 64-bit range
IsMethodsQuery(text) ==
    \E uid \in 0..U64Max : text = <<"(", "methods", ToString(uid), ")">>

QueryUid(text) == NumVal(text[3])

\* C19: both parsers, Message::from_sexp of protocol.rs and
\* Message::from_sexpr of message.rs, accept (methods UID) and return a
\* methods query that carries this UID
C19_MethodsQueryAccepted ==
    /\ (Done("from_sexp") /\ IsMethodsQuery(pin)) =>
        /\ pout[1].ok
        /\ pout[1].msg = new_methods(QueryUid(pin))
    /\ (Done("from_sexpr") /\ IsMethodsQuery(pin)) =>
        /\ pout[1].status = "ok"
        /\ pout[1].msg.msg_type = "methods"
        /\ pout[1].msg.session_id = ToString(QueryUid(pin))


\* the text is a list of four elements: the symbol call, an integer, a
\* symbol, and one more value
FourElementCall(text, method) ==
    LET items == Elements(text) IN
    /\ ReadValue(text).kind = "list"
    /\ Len(items) = 4
    /\ items[1] = <<"call">>
    /\ IsAtom(items[2]) /\ IsNumTok(items[2][1])
    /\ items[3] = <<method>> /\ IsSymTok(method)

\* C20: every call the program serializes, with Message::to_sexp of
\* protocol.rs or with Message::to_sexpr of message.rs, has exactly four
\* top-level elements, whatever the number of its arguments
C20_CallHasFourElements ==
    /\ (Done("to_sexp") /\ pin.type = "call") =>
        FourElementCall(pout[1], pin.method)
    /\ Done("to_sexpr") => FourElementCall(pout[1], pin.method)


\* C21: a call of a method that returns its first argument, with the single
\* argument v, returns a value equal to v, for every EpcValue v
C21_EchoReturnsArgument ==
    Done("echo") => pout[1].status = "ok" /\ pout[1].value = pin


\* the value is a string, at the top level or inside nested lists
RECURSIVE HoldsString(_)
HoldsString(v) ==
    \/ v.k = "string"
    \/ v.k = "list" /\ Len(v.items) = 1 /\ HoldsString(v.items[1])

\* C22: every string is read back identical after being emitted, at the top
\* level of a message and inside a nested list, whatever characters it holds
C22_StringRoundTrip ==
    (Done("return_round_trip") /\ HoldsString(pin)) =>
        pout[1].status = "ok" /\ pout[1].value = pin


\* the value is a symbol or a string whose text is the name of a symbol,
\* at the top level or inside nested lists
RECURSIVE Innermost(_)
Innermost(v) ==
    IF v.k = "list" /\ Len(v.items) = 1 THEN Innermost(v.items[1]) ELSE v

NamedValue(v) ==
    /\ Innermost(v).k \in {"symbol", "string"}
    /\ Innermost(v).s \in SymbolNames

\* C23: a symbol emitted by the codec is read back as the same symbol and a
\* string as the same string; a symbol is never read back as Nil, Bool or a
\* number
C23_SymbolStringDistinct ==
    (Done("return_round_trip") /\ NamedValue(pin)) =>
        /\ pout[1].status = "ok"
        /\ pout[1].value = pin


\* nil, written as nil or as the empty list
NilTexts == {<<"nil">>, <<"(", ")">>}

\* the triples (name nil nil) of the registered methods, the name a symbol
MethodTriples(reg) ==
    {<<"(", name>> \o a \o d \o <<")">> :
        name \in reg, a \in NilTexts, d \in NilTexts}

\* the text is (return uid payload) and the payload a list with exactly one
\* triple for each method of reg, none of which has metadata
MethodsAnswer(text, uid, reg) ==
    LET items == Elements(text)
        triples == Elements(items[3])
    IN  /\ ReadValue(text).kind = "list"
        /\ Len(items) = 3
        /\ items[1] = <<"return">>
        /\ items[2] = <<uid>>
        /\ Len(triples) = Cardinality(reg)
        /\ \A i \in 1..Len(triples) : triples[i] \in MethodTriples(reg)
        /\ \A name \in reg : \E i \in 1..Len(triples) : triples[i][2] = name

\* C24: a methods query is answered with a return frame whose payload has
\* exactly one triple per registered method: the name as a symbol, then nil
\* for the arg-spec and nil for the docstring that were not supplied
C24_MethodsAnswer ==
    \A i \in Processed :
        IsMethodsQuery(reqs[i].text) =>
            /\ Len(reqs[i].resp) = 1
            /\ MethodsAnswer(reqs[i].resp[1], reqs[i].text[3], registry)


\* the connection, the server, the client and the functions applied on their
\* own, with nothing going on
EngineIdle ==
    /\ WireIdle
    /\ ClientIdle
    /\ registry = InitialRegistry
    /\ impl = "server"
    /\ spc = "read"
    /\ sbuf = <<>>
    /\ expected_length = NoneVal
    /\ cur = NoCall
    /\ reqs = <<>>
    /\ peerFrames = 0
    /\ pop = ""
    /\ pin = <<>>
    /\ pout = NotApplied

engineVars == <<wireVars, serverVars, clientVars, pureVars, written>>

(***************************************************************************)
(* One UidGenerator used by several threads (UidSpec)                      *)
(***************************************************************************)

\* the most calls of next() one thread makes
MaxUids == 2

nonUidVars == <<engineVars, regVars, sessVars, lifeVars, procVars, wrVars>>
nonRegVars == <<engineVars, uidVars, sessVars, lifeVars, procVars, wrVars>>
nonSessVars == <<engineVars, regVars, uidVars, lifeVars, procVars, wrVars>>
nonLifeVars == <<engineVars, regVars, uidVars, sessVars, procVars, wrVars>>
nonProcVars == <<engineVars, regVars, uidVars, sessVars, lifeVars, wrVars>>

\* AtomicU64::fetch_add(1, Ordering::Relaxed): one indivisible step that
\* returns the value the counter had and leaves it one higher, wrapping
\* around at the top of the range
FetchAddMutant(c) == [returned |-> c, stored |-> c]
FetchAdd(c) == [returned |-> c, stored |-> (c + 1) % (U64Max + 1)]

\* UidGenerator::new() or UidGenerator::from(start)
UidInit ==
    /\ EngineIdle
    /\ RegIdle
    /\ SessIdle
    /\ LifeIdle
    /\ ProcIdle
    /\ WrIdle
    /\ start \in 0..U64Max
    /\ counter = start
    /\ uids = [t \in Threads |-> <<>>]
    /\ wasReset = FALSE

\* uids.push(gen.next()) in thread t
UidNext(t) ==
    /\ Len(uids[t]) < MaxUids
    /\ counter' = FetchAdd(counter).stored
    /\ uids' = [uids EXCEPT ![t] = Append(@, FetchAdd(counter).returned)]
    /\ UNCHANGED <<nonUidVars, start, wasReset>>

\* gen.reset(value)
UidReset(value) ==
    /\ ~wasReset
    /\ counter' = value
    /\ wasReset' = TRUE
    /\ UNCHANGED <<nonUidVars, start, uids>>

UidSpecNext ==
    \/ \E t \in Threads : UidNext(t)
    \/ \E value \in 0..U64Max : UidReset(value)

UidSpec == UidInit /\ [][UidSpecNext]_vars

\* the calls of next() made so far, and the values they returned
Calls == {<<t, i>> : t \in Threads, i \in 1..MaxUids} \cap
             {c \in (Threads \X (1..MaxUids)) : c[2] <= Len(uids[c[1]])}
AllUids == {uids[c[1]][c[2]] : c \in Calls}

\* the N calls have returned the N values from start on, each of them once
Sequential ==
    /\ AllUids = start..(start + Cardinality(Calls) - 1)
    /\ Cardinality(AllUids) = Cardinality(Calls)

\* C26 as stated: on a generator that is not reset, any N calls of next()
\* from any number of threads return exactly the values start, ...,
\* start + N - 1, each of them once
C26_NextIsSequential == ~wasReset => Sequential

\* C26: on a generator that is not reset, any N calls of next() from any
\* number of threads return exactly the values start, ..., start + N - 1,
\* each of them once, as long as start + N - 1 is a u64; after u64::MAX the
\* counter wraps around and next() returns 0
C26_NextIsSequentialInRange ==
    (~wasReset /\ start + Cardinality(Calls) - 1 <= U64Max) => Sequential

\* two threads have each called next() more than once on a generator that
\* was not made with new(), and the values stayed in the range
C26_Witness ==
    /\ ~wasReset
    /\ start > 1
    /\ \A t \in Threads : Len(uids[t]) = MaxUids
    /\ start + Cardinality(Calls) - 1 <= U64Max
    /\ uids[1][1] > uids[2][1]
    /\ uids[1][2] < uids[2][2]


(***************************************************************************)
(* The method registry used by several tasks at once (RegistrySpec)        *)
(***************************************************************************)

\* the most register and unregister operations one run performs
MaxRegOps == 2

\* MethodInfo: what a handler reports about itself (the docstring stands for
\* both optional fields)
MethodInfo(name, docstring) == [name |-> name, docstring |-> docstring]

\* handler.info()
Info(handler) == MethodInfo(handler.name, handler.docstring)

Docstrings == {"", "doc"}

\* ClosureHandler::new(func, name, arg_spec, docstring); the closure of the
\* method "slow" is the one that may not return
ClosureHandler(name, docstring) == Handler(name, docstring, name = "slow")

\* a handler built by the caller of register_handler, which names itself
EchoMethodHandler == Handler("echo", "doc", FALSE)

\* tokio::sync::RwLock: any number of readers or one writer
CanRead(rw) == rw.writer = ""
CanWriteMutant(rw) == rw.writer = ""
CanWrite(rw) == rw.writer = "" /\ rw.readers = {}

\* the lock hands itself to the tasks that wait, in the order they came,
\* as long as the first of them can have it
RECURSIVE Settle(_)
Settle(rw) ==
    IF rw.queue = <<>>
    THEN rw
    ELSE LET first == Head(rw.queue)
         IN  IF first.mode = "read" /\ CanRead(rw)
             THEN Settle([rw EXCEPT !.readers = @ \cup {first.t},
                                     !.queue = Tail(@)])
             ELSE IF first.mode = "write" /\ CanWrite(rw)
             THEN Settle([rw EXCEPT !.writer = first.t,
                                     !.queue = Tail(@)])
             ELSE rw

\* .read() and .write(): the task gets the lock at once or waits in line
Acquire(rw, t, mode) ==
    Settle([rw EXCEPT !.queue = Append(@, [t |-> t, mode |-> mode])])

\* the guard is dropped
Release(rw, t) ==
    Settle([rw EXCEPT !.readers = @ \ {t},
                        !.writer = IF @ = t THEN "" ELSE @])

\* .await of the lock has returned
Holds(rw, t) == t \in rw.readers \/ rw.writer = t

\* a query_methods is between its start and its end
Querying ==
    /\ task["observer"].pc # "idle"
    /\ task["observer"].op = "query_methods"

\* the contents the registry has had during the current query
SeenWith(m) == IF Querying THEN seen \cup {m} ELSE seen

\* the result of an operation that is over
OkOf(v) == <<"Ok", v>>
MethodNotFound(name) == <<"Err", "MethodNotFound", name>>

RegistryInit ==
    /\ EngineIdle
    /\ AuxIdle

\* register_closure(name, func, arg_spec, docstring), up to the write lock
RegisterClosure(name, docstring) ==
    /\ task["registrar"].pc = "idle"
    /\ Len(oplog) < MaxRegOps
    /\ task' = [task EXCEPT !["registrar"] =
                   [NoTask EXCEPT !.pc = "insert",
                                  !.op = "register_closure",
                                  !.name = name,
                                  !.handler = ClosureHandler(name, docstring)]]
    /\ rwlock' = Acquire(rwlock, "registrar", "write")
    /\ UNCHANGED <<nonRegVars, methods, oplog, seen>>

\* register_handler(name, handler), up to the write lock
RegisterHandler(name, handler) ==
    /\ task["registrar"].pc = "idle"
    /\ Len(oplog) < MaxRegOps
    /\ task' = [task EXCEPT !["registrar"] =
                   [NoTask EXCEPT !.pc = "insert",
                                  !.op = "register_handler",
                                  !.name = name,
                                  !.handler = handler]]
    /\ rwlock' = Acquire(rwlock, "registrar", "write")
    /\ UNCHANGED <<nonRegVars, methods, oplog, seen>>

\* unregister(name), up to the write lock
Unregister(name) ==
    /\ task["registrar"].pc = "idle"
    /\ Len(oplog) < MaxRegOps
    /\ task' = [task EXCEPT !["registrar"] =
                   [NoTask EXCEPT !.pc = "remove",
                                  !.op = "unregister",
                                  !.name = name]]
    /\ rwlock' = Acquire(rwlock, "registrar", "write")
    /\ UNCHANGED <<nonRegVars, methods, oplog, seen>>

\* .insert(name, handler) with the write lock, which is then dropped
Insert ==
    /\ task["registrar"].pc = "insert"
    /\ Holds(rwlock, "registrar")
    /\ LET t == task["registrar"]
       IN  /\ methods' = [methods EXCEPT ![t.name] = t.handler]
           /\ oplog' = Append(oplog, [op |-> "register", name |-> t.name,
                                      handler |-> t.handler])
           /\ task' = [task EXCEPT !["registrar"] =
                          [t EXCEPT !.pc = "idle", !.result = OkOf("")]]
    /\ seen' = SeenWith(methods')
    /\ rwlock' = Release(rwlock, "registrar")
    /\ UNCHANGED nonRegVars

\* HashMap::remove(name): the map without the entry of that name, and the
\* value the entry held (None, here NoHandler, when there was none)
HashMapRemoveMutant(m, name) ==
    [map |-> [n \in DOMAIN m |-> NoHandler], value |-> m[name]]
HashMapRemove(m, name) ==
    [map |-> [m EXCEPT ![name] = NoHandler], value |-> m[name]]

\* .remove(name) with the write lock, which is then dropped
Remove ==
    /\ task["registrar"].pc = "remove"
    /\ Holds(rwlock, "registrar")
    /\ LET t == task["registrar"]
           removed == HashMapRemove(methods, t.name)
       IN  /\ methods' = removed.map
           /\ oplog' = Append(oplog, [op |-> "unregister", name |-> t.name,
                                      handler |-> NoHandler])
           /\ task' = [task EXCEPT !["registrar"] =
                          [t EXCEPT !.pc = "idle",
                                    !.result =
                                        IF removed.value = NoHandler
                                        THEN MethodNotFound(t.name)
                                        ELSE OkOf("")]]
    /\ seen' = SeenWith(methods')
    /\ rwlock' = Release(rwlock, "registrar")
    /\ UNCHANGED nonRegVars

\* call_method(name, args), up to the read lock
CallMethod(name) ==
    /\ task["caller"].pc = "idle"
    /\ task' = [task EXCEPT !["caller"] =
                   [NoTask EXCEPT !.pc = "lookup",
                                  !.op = "call_method",
                                  !.name = name]]
    /\ rwlock' = Acquire(rwlock, "caller", "read")
    /\ UNCHANGED <<nonRegVars, methods, oplog, seen>>

\* methods.get(name) with the read lock: without a handler the call is over
\* and the guard dropped, with one the handler is called and the guard kept
Lookup ==
    /\ task["caller"].pc = "lookup"
    /\ Holds(rwlock, "caller")
    /\ LET t == task["caller"]
       IN  IF methods[t.name] = NoHandler
           THEN /\ task' = [task EXCEPT !["caller"] =
                               [t EXCEPT !.pc = "idle",
                                         !.at = Len(oplog),
                                         !.result = MethodNotFound(t.name)]]
                /\ rwlock' = Release(rwlock, "caller")
           ELSE /\ task' = [task EXCEPT !["caller"] =
                               [t EXCEPT !.pc = "handler",
                                         !.at = Len(oplog),
                                         !.handler = methods[t.name]]]
                /\ rwlock' = rwlock
    /\ UNCHANGED <<nonRegVars, methods, oplog, seen>>

\* handler.call(args).await returns, call_method returns its result and the
\* guard is dropped
HandlerReturns ==
    /\ task["caller"].pc = "handler"
    /\ LET t == task["caller"]
       IN  task' = [task EXCEPT !["caller"] =
                       [t EXCEPT !.pc = "idle",
                                 !.result = OkOf(Info(t.handler))]]
    /\ rwlock' = Release(rwlock, "caller")
    /\ UNCHANGED <<nonRegVars, methods, oplog, seen>>

\* has_method(name), up to the read lock
HasMethod(name) ==
    /\ task["observer"].pc = "idle"
    /\ task' = [task EXCEPT !["observer"] =
                   [NoTask EXCEPT !.pc = "contains_key",
                                  !.op = "has_method",
                                  !.name = name]]
    /\ rwlock' = Acquire(rwlock, "observer", "read")
    /\ UNCHANGED <<nonRegVars, methods, oplog, seen>>

\* .contains_key(name) with the read lock, which is then dropped
ContainsKey ==
    /\ task["observer"].pc = "contains_key"
    /\ Holds(rwlock, "observer")
    /\ LET t == task["observer"]
       IN  task' = [task EXCEPT !["observer"] =
                       [t EXCEPT !.pc = "idle",
                                 !.at = Len(oplog),
                                 !.found = methods[t.name] # NoHandler]]
    /\ rwlock' = Release(rwlock, "observer")
    /\ UNCHANGED <<nonRegVars, methods, oplog, seen>>

\* query_methods(), up to the read lock
QueryMethods ==
    /\ task["observer"].pc = "idle"
    /\ task' = [task EXCEPT !["observer"] =
                   [NoTask EXCEPT !.pc = "collect",
                                  !.op = "query_methods",
                                  !.left = RegNames]]
    /\ rwlock' = Acquire(rwlock, "observer", "read")
    /\ seen' = {methods}
    /\ UNCHANGED <<nonRegVars, methods, oplog>>

\* methods.values().map(|handler| handler.info()).collect() with the read
\* lock: the map is gone through in an order of its own, one place at a
\* time, and the guard is dropped after the last
Collect ==
    /\ task["observer"].pc = "collect"
    /\ Holds(rwlock, "observer")
    /\ \E name \in task["observer"].left :
           LET t == task["observer"]
               left == t.left \ {name}
               result == IF methods[name] = NoHandler
                         THEN t.result
                         ELSE Append(t.result, Info(methods[name]))
           IN  /\ task' = [task EXCEPT !["observer"] =
                              [t EXCEPT !.pc = IF left = {} THEN "idle"
                                               ELSE "collect",
                                        !.at = IF t.left = RegNames
                                               THEN Len(oplog) ELSE @,
                                        !.left = left,
                                        !.result = result]]
               /\ rwlock' = IF left = {} THEN Release(rwlock, "observer")
                            ELSE rwlock
    /\ UNCHANGED <<nonRegVars, methods, oplog, seen>>

RegistryNext ==
    \/ \E name \in RegNames, docstring \in Docstrings :
           RegisterClosure(name, docstring)
    \/ \E name \in RegNames : RegisterHandler(name, EchoMethodHandler)
    \/ \E name \in RegNames : Unregister(name)
    \/ Insert
    \/ Remove
    \/ \E name \in RegNames : CallMethod(name)
    \/ Lookup
    \/ HandlerReturns
    \/ \E name \in RegNames : HasMethod(name)
    \/ ContainsKey
    \/ QueryMethods
    \/ Collect

RegistrySpec == RegistryInit /\ [][RegistryNext]_vars

\* an operation of a task is over
Finished(t, op) == task[t].pc = "idle" /\ task[t].op = op

\* the registry after a sequence of register and unregister operations: under
\* each name the handler of the last operation on it if that was a register
RECURSIVE Latest(_)
Latest(log) ==
    IF log = <<>>
    THEN [n \in RegNames |-> NoHandler]
    ELSE LET last == log[Len(log)]
         IN  [Latest(SubSeq(log, 1, Len(log) - 1)) EXCEPT
                 ![last.name] = last.handler]

\* what the registry held when a task looked at it
LatestAt(t) == Latest(SubSeq(oplog, 1, task[t].at))

Registered(m) == {n \in RegNames : m[n] # NoHandler}

\* the names a list of MethodInfo gives
NamesOf(infos) == {infos[i].name : i \in 1..Len(infos)}


\* the names has_method, call_method and query_methods have found registered
\* are those the registry held when they looked
ObservedAsHeld ==
    /\ Finished("observer", "has_method") =>
           task["observer"].found =
               (task["observer"].name \in Registered(LatestAt("observer")))
    /\ Finished("caller", "call_method") =>
           IF task["caller"].name \in Registered(LatestAt("caller"))
           THEN task["caller"].result =
                    OkOf(Info(LatestAt("caller")[task["caller"].name]))
           ELSE task["caller"].result = MethodNotFound(task["caller"].name)
    /\ Finished("observer", "query_methods") =>
           /\ NamesOf(task["observer"].result) =
                  Registered(LatestAt("observer"))
           /\ Len(task["observer"].result) =
                  Cardinality(Registered(LatestAt("observer")))

\* C25: after any sequence of register and unregister operations the
\* registry holds, under each name whose most recent operation was a
\* register, the handler and metadata of that register, and nothing under
\* any other name; has_method, call_method and query_methods all observe
\* exactly that set of names
C25_RegistryHoldsLatest ==
    /\ methods = Latest(oplog)
    /\ ObservedAsHeld


\* the orders in which a map can be gone through
Orders(names) ==
    {o \in [1..Cardinality(names) -> names] :
        \A i, j \in 1..Cardinality(names) : o[i] = o[j] => i = j}

\* the lists of MethodInfo that are the contents of a registry
Listings(m) ==
    {[i \in 1..Len(o) |-> Info(m[o[i]])] : o \in Orders(Registered(m))}

\* C30: a query_methods that runs while register and unregister operations
\* go on returns the contents the registry had at one single instant between
\* the start and the end of the query: one MethodInfo for each entry of that
\* instant, and nothing made of two different instants
C30_QueryIsSnapshot ==
    Finished("observer", "query_methods") =>
        \E m \in seen : task["observer"].result \in Listings(m)

\* a query has returned a list, and the registry changed between its start
\* and its end
C30_Witness ==
    /\ Finished("observer", "query_methods")
    /\ Cardinality(seen) > 1
    /\ task["observer"].result # <<>>


\* the runtime keeps running a task that holds what it waits for, and a
\* handler that is not slow returns; nothing makes a slow handler return
RegistryLive ==
    /\ RegistrySpec
    /\ WF_vars(Insert)
    /\ WF_vars(Remove)
    /\ WF_vars(Lookup)
    /\ WF_vars(ContainsKey)
    /\ WF_vars(Collect)
    /\ WF_vars(HandlerReturns /\ ~task["caller"].handler.slow)

\* register_closure, register_handler or unregister has been called and has
\* not returned
Registering == task["registrar"].pc \in {"insert", "remove"}

\* C29: a register or unregister operation issued while methods are being
\* called always eventually completes, even while a handler invocation has
\* not yet returned
C29_RegisterCompletes == Registering ~> ~Registering


(***************************************************************************)
(* The UIDs of the calls issued on several connections (SessionSpec)       *)
(***************************************************************************)

\* the most calls issued on one connection
MaxCallsPerConn == 3

\* what issues the calls of a connection: a Client of client.rs with its own
\* counter, or Message::new_call of message.rs
ConnKinds == {"client", "message"}

SessionInit ==
    /\ EngineIdle
    /\ AuxIdle

\* Client::connect: next_uid is a new Mutex::new(1); a connection whose
\* messages are made by message.rs has no counter of its own
Connect(c, kind) ==
    /\ clients[c].kind = ""
    /\ clients' = [clients EXCEPT ![c] = [kind |-> kind, next_uid |-> 1,
                                          issued |-> <<>>]]
    /\ UNCHANGED <<nonSessVars, SESSION_COUNTER>>

\* Client::next_uid for a call_sync or a query_methods: the value of the
\* connection's counter, which is left one higher
ClientNextUid(c) ==
    /\ clients[c].kind = "client"
    /\ Len(clients[c].issued) < MaxCallsPerConn
    /\ clients' = [clients EXCEPT ![c].issued = Append(@, clients[c].next_uid),
                                  ![c].next_uid = (@ + 1) % (U64Max + 1)]
    /\ UNCHANGED <<nonSessVars, SESSION_COUNTER>>

\* Message::new_call or Message::new_methods_query for a connection: the
\* session id is the decimal text of SESSION_COUNTER.fetch_add(1, SeqCst)
MessageNewCall(c) ==
    /\ clients[c].kind = "message"
    /\ Len(clients[c].issued) < MaxCallsPerConn
    /\ clients' = [clients EXCEPT ![c].issued =
                      Append(@, NatChars(FetchAdd(SESSION_COUNTER).returned))]
    /\ SESSION_COUNTER' = FetchAdd(SESSION_COUNTER).stored
    /\ UNCHANGED nonSessVars

SessionNext ==
    \/ \E c \in Conns, kind \in ConnKinds : Connect(c, kind)
    \/ \E c \in Conns : ClientNextUid(c)
    \/ \E c \in Conns : MessageNewCall(c)

SessionSpec == SessionInit /\ [][SessionNext]_vars

\* the number that the i-th call issued on connection c carries
IssuedUid(c, i) ==
    IF clients[c].kind = "client"
    THEN clients[c].issued[i]
    ELSE NatValue(clients[c].issued[i])

\* C27: the UIDs of the calls issued on one connection are 1, 2, 3, ... in
\* the order the calls are issued, so no two of them are the same, and the
\* first call on every connection carries UID 1 whatever has been issued on
\* other connections
C27_UidsCountFromOne ==
    \A c \in Conns :
        \A i \in 1..Len(clients[c].issued) : IssuedUid(c, i) = i


(***************************************************************************)
(* A Server that is bound, serves and is shut down (LifecycleSpec)         *)
(***************************************************************************)

LifecycleInit ==
    /\ EngineIdle
    /\ AuxIdle

\* Server::bind: the listening socket exists and is kept in self.listener
\* (bind, serve and shutdown take &mut self, so none runs during another; the
\* server is followed up to its shutdown)
Bind ==
    /\ shutdownPc = "idle"
    /\ listener = "none"
    /\ listener' = "bound"
    /\ UNCHANGED <<nonLifeVars, shutdown_tx, signal, shutdownPc, conn,
                   answered>>

\* Server::serve: the listener moves into a spawned task, whose handle is
\* pushed to self.handles, and the sender of the shutdown channel is kept
Serve ==
    /\ shutdownPc = "idle"
    /\ listener = "bound"
    /\ listener' = "listening"
    /\ shutdown_tx' = TRUE
    /\ UNCHANGED <<nonLifeVars, signal, shutdownPc, conn, answered>>

\* a peer connects to the listening socket
PeerConnects(c) ==
    /\ listener \in {"bound", "listening"}
    /\ conn[c] = "none"
    /\ conn' = [conn EXCEPT ![c] = "pending"]
    /\ UNCHANGED <<nonLifeVars, listener, shutdown_tx, signal, shutdownPc,
                   answered>>

\* the listener task's select! takes listener.accept(): the connection gets
\* a task of its own, spawned and not kept anywhere
Accept(c) ==
    /\ listener = "listening"
    /\ conn[c] = "pending"
    /\ conn' = [conn EXCEPT ![c] = "live"]
    /\ UNCHANGED <<nonLifeVars, listener, shutdown_tx, signal, shutdownPc,
                   answered>>

\* the listener task's select! takes shutdown_rx.recv(): the loop is left,
\* the task ends and the listener is dropped with the connections it had not
\* accepted
ListenerStops ==
    /\ listener = "listening"
    /\ signal
    /\ listener' = "stopped"
    /\ signal' = FALSE
    /\ conn' = [c \in Conns |->
                   IF conn[c] = "pending" THEN "refused" ELSE conn[c]]
    /\ UNCHANGED <<nonLifeVars, shutdown_tx, shutdownPc, answered>>

\* Server::shutdown, up to the handles: the sender is taken and the signal
\* sent if serve had been called
ShutdownSend ==
    /\ shutdownPc = "idle"
    /\ shutdownPc' = "join"
    /\ shutdown_tx' = FALSE
    /\ signal' = shutdown_tx
    /\ UNCHANGED <<nonLifeVars, listener, conn, answered>>

\* Server::shutdown: every handle of self.handles, that is the listener
\* task's if serve had been called, has been awaited and shutdown returns
ShutdownReturns ==
    /\ shutdownPc = "join"
    /\ listener # "listening"
    /\ shutdownPc' = "returned"
    /\ UNCHANGED <<nonLifeVars, listener, shutdown_tx, signal, conn, answered>>

\* a request arrives on an accepted connection and its task answers it
ConnectionAnswers(c) ==
    /\ conn[c] = "live"
    /\ answered' = answered \cup {<<c, shutdownPc = "returned">>}
    /\ UNCHANGED <<nonLifeVars, listener, shutdown_tx, signal, shutdownPc,
                   conn>>

\* the peer closes an accepted connection and its task ends
PeerCloses(c) ==
    /\ conn[c] = "live"
    /\ conn' = [conn EXCEPT ![c] = "closed"]
    /\ UNCHANGED <<nonLifeVars, listener, shutdown_tx, signal, shutdownPc,
                   answered>>

LifecycleNext ==
    \/ Bind
    \/ Serve
    \/ \E c \in Conns : PeerConnects(c)
    \/ \E c \in Conns : Accept(c)
    \/ ListenerStops
    \/ ShutdownSend
    \/ ShutdownReturns
    \/ \E c \in Conns : ConnectionAnswers(c)
    \/ \E c \in Conns : PeerCloses(c)

LifecycleSpec == LifecycleInit /\ [][LifecycleNext]_vars

\* the listener accepts nothing any more
ListenerClosed == listener # "listening"

\* C28: once Server::shutdown has returned, the listener accepts no further
\* connection and every connection that was live has been torn down, so that
\* no request that arrives on one of them afterwards is answered
C28_ShutdownTearsDown ==
    shutdownPc = "returned" =>
        /\ ListenerClosed
        /\ \A c \in Conns : conn[c] # "live"
        /\ \A c \in Conns : <<c, TRUE>> \notin answered


(***************************************************************************)
(* Properties of the server's life (LifecycleSpec)                         *)
(***************************************************************************)

\* self.listener is Some: bind has put the listener there and serve has not
\* taken it
ListenerKept == listener = "bound"

\* Server::port: the port of the listener kept in self.listener
Port == IF ListenerKept THEN <<"Some", "port">> ELSE <<"None">>

\* Server::print_port: the port is printed if port() gives one
PrintPort ==
    IF Port # <<"None">>
    THEN [ok |-> TRUE, stdout |-> <<"port", "\n">>, err |-> Err("", "")]
    ELSE [ok |-> FALSE, stdout |-> <<>>,
          err |-> Err("ProtocolError", "Server not bound")]

\* C31: once bind has succeeded, port() returns the bound port and
\* print_port() succeeds in every later state of the server, also after
\* serve() has started the accept loop
C31_PortKnownOnceBound ==
    listener # "none" =>
        /\ Port = <<"Some", "port">>
        /\ PrintPort.ok


(***************************************************************************)
(* A Process that starts a child and connects to it (ProcessSpec)          *)
(***************************************************************************)

\* the most lines the child writes
MaxChildLines == 2

\* what a line of the child is: the decimal text of a port, an empty line,
\* or anything that line.trim().parse::<u16>() rejects
ChildLines == {"port", "", "garbage"}

ProcessInit ==
    /\ EngineIdle
    /\ AuxIdle

\* Process::start up to next_line: Command::spawn fails, or the child runs
\* and the local variable child holds it
Start(spawned) ==
    /\ startPc = "idle"
    /\ stopped = "no"
    /\ IF spawned
       THEN /\ child' = "running"
            /\ childHandle' = TRUE
            /\ startPc' = "next_line"
       ELSE /\ startPc' = "err"
            /\ UNCHANGED <<child, childHandle>>
    /\ UNCHANGED <<nonProcVars, childOut, killed, procClient, stopped>>

\* the child writes a line to its standard output
ChildWrites(line) ==
    /\ child = "running"
    /\ Len(childOut) < MaxChildLines
    /\ childOut' = Append(childOut, line)
    /\ UNCHANGED <<nonProcVars, child, childHandle, killed, startPc,
                   procClient, stopped>>

\* the child exits of its own accord: its standard output ends
ChildExits ==
    /\ child = "running"
    /\ child' = "exited"
    /\ UNCHANGED <<nonProcVars, childOut, childHandle, killed, startPc,
                   procClient, stopped>>

\* lines.next_line().await has the first line or the end of the output: a
\* port goes on to the connection, anything else makes start return an
\* error, and the local variable child is dropped
NextLine ==
    /\ startPc = "next_line"
    /\ childOut # <<>> \/ child = "exited"
    /\ IF childOut # <<>> /\ Head(childOut) = "port"
       THEN /\ startPc' = "connect"
            /\ UNCHANGED childHandle
       ELSE /\ startPc' = "err"
            /\ childHandle' = FALSE
    /\ UNCHANGED <<nonProcVars, child, childOut, killed, procClient, stopped>>

\* the sleep and Client::connect: start returns Ok with the client kept, or
\* the error of connect; the local variable child is dropped
ConnectDone(connected) ==
    /\ startPc = "connect"
    /\ connected => child = "running"
    /\ startPc' = IF connected THEN "ok" ELSE "err"
    /\ procClient' = connected
    /\ childHandle' = FALSE
    /\ UNCHANGED <<nonProcVars, child, childOut, killed, stopped>>

\* Process::stop: the client is closed and let go of, unless close fails
Stop(closed) ==
    /\ startPc \in {"idle", "ok", "err"}
    /\ stopped # "dropped"
    /\ procClient' = (procClient /\ ~closed)
    /\ stopped' = "stopped"
    /\ UNCHANGED <<nonProcVars, child, childOut, childHandle, killed, startPc>>

\* the Process is dropped: it has no Drop of its own, its fields are dropped
DropProcess ==
    /\ startPc \in {"idle", "ok", "err"}
    /\ stopped # "dropped"
    /\ stopped' = "dropped"
    /\ procClient' = FALSE
    /\ UNCHANGED <<nonProcVars, child, childOut, childHandle, killed, startPc>>

ProcessNext ==
    \/ \E spawned \in BOOLEAN : Start(spawned)
    \/ \E line \in ChildLines : ChildWrites(line)
    \/ ChildExits
    \/ NextLine
    \/ \E connected \in BOOLEAN : ConnectDone(connected)
    \/ \E closed \in BOOLEAN : Stop(closed)
    \/ DropProcess

ProcessSpec == ProcessInit /\ [][ProcessNext]_vars

\* the runtime keeps running start when it can go on; nothing makes the
\* child write or exit
ProcessLive ==
    /\ ProcessSpec
    /\ WF_vars(NextLine)
    /\ WF_vars(\E connected \in BOOLEAN : ConnectDone(connected))

\* Process::start has been called and has not returned
Starting == startPc \in {"next_line", "connect"}

\* C32: Process::start always returns: when the child never writes a port
\* line to its standard output and does not exit, start still ends, with an
\* error, after a finite time
C32_StartReturns == Starting ~> ~Starting

\* C33: after Process::stop, or after the Process is dropped, the child that
\* start spawned has been asked to terminate, and a child is never left
\* running with no handle to it retained
C33_ChildNotLeftRunning ==
    /\ (stopped # "no" /\ child = "running") => killed
    /\ (child = "running" /\ ~Starting) => childHandle


(***************************************************************************)
(* More properties of a served connection (ServerSpec)                     *)
(***************************************************************************)

\* the i-th frame written by the peer has a body that is no message
FailsToParse(i) == \E t \in MalformedTexts : written[i] = Frame(t)

\* the i-th frame written by the peer has been extracted and answered
Answered(i) ==
    /\ i <= Len(reqs)
    /\ reqs[i].text = Payload(written[i])
    /\ reqs[i].done
    /\ reqs[i].resp # <<>>

\* every byte the peer has written has been read, the peer has not closed,
\* and the connection task is not inside a handler
WaitingForPeer == NothingToRead /\ ~c2sClosed

\* C34: when a frame that fails to parse is followed on the same connection
\* by complete well-formed request frames, each of those requests is
\* answered without the peer having to send any further bytes
C34_AnsweredAfterParseFailure ==
    (WellFormedFrames /\ WaitingForPeer) =>
        \A i, j \in 1..Len(written) :
            (i < j /\ FailsToParse(i) /\ WellFormedRequest(Payload(written[j])))
                => Answered(j)


\* the frames of the answers to the i-th request received
AnswerFrames(i) ==
    Flatten([k \in 1..Len(reqs[i].resp) |-> Frame(reqs[i].resp[k])])

\* C35: on one server connection the response frames are written in the
\* order in which the requests they answer were received: the outgoing
\* stream is the answers to the requests, one after the other in the order
\* of the requests
C35_AnswersInRequestOrder ==
    s2c = Flatten([i \in 1..Len(reqs) |-> AnswerFrames(i)])

\* two requests have been answered with different frames, the first of them
\* by its handler
C35_Witness ==
    /\ Len(reqs) >= 2
    /\ IsCallOf(reqs[1].text, registry)
    /\ reqs[1].resp # <<>>
    /\ reqs[2].resp # <<>>
    /\ reqs[1].resp # reqs[2].resp


(***************************************************************************)
(* More properties of concurrent calls on one Client (CallSpec)            *)
(***************************************************************************)

\* caller t has started call_sync or query_methods on a runtime worker
CalledOnRuntime(t) == cpc[t] # "idle" /\ cop[t].ctx = "runtime"

\* C36: within call_sync and query_methods, executed on the runtime, the
\* allocation of the next UID always completes and hands a fresh UID to the
\* caller: the calling task is not aborted, and no two callers hold the same
\* UID
C36_UidAllocated ==
    \A t \in Callers :
        CalledOnRuntime(t) =>
            /\ cpc[t] # "panicked"
            /\ cuid[t] >= 1
            /\ \A u \in Callers \ {t} : cpc[u] # "idle" => cuid[u] # cuid[t]

(***************************************************************************)
(* Request frames written by concurrent calls on one Client (WriteSpec)    *)
(***************************************************************************)

\* self.stream.lock().await returns its guard when no task holds the stream
StreamFreeMutant(l) == TRUE
StreamFree(l) == l = 0

\* send_message up to self.stream.lock().await: the request is framed, and
\* the caller gets the guard of the stream
LockStream(t) ==
    /\ cpc[t] = "write"
    /\ StreamFree(lock)
    /\ lock' = t
    /\ cpc' = [cpc EXCEPT ![t] = "writing"]
    /\ unwritten' = [unwritten EXCEPT
                        ![t] = Frame(to_sexp(Request(cop[t], cuid[t])))]
    /\ UNCHANGED <<wireVars, serverVars, next_uid, cop, cuid, cbuf, cgot,
                   cres, closePc, peerSent, peerSeen, shortReads>>
    /\ UNCHANGED <<pureVars, written, regVars, uidVars, sessVars, lifeVars,
                   procVars, c2sBy>>

\* stream.write_all(&framed).await: the socket takes the next k units of the
\* frame; when none is left write_all returns, the guard is dropped at the
\* end of the block and the caller goes on to read the answer
WriteSome(t, k) ==
    /\ cpc[t] = "writing"
    /\ k \in 1..Len(unwritten[t])
    /\ c2s' = WriteAll(c2s, SubSeq(unwritten[t], 1, k))
    /\ c2sBy' = c2sBy \o [i \in 1..k |-> t]
    /\ unwritten' = [unwritten EXCEPT
                        ![t] = SubSeq(@, k + 1, Len(unwritten[t]))]
    /\ IF k = Len(unwritten[t])
       THEN /\ lock' = 0
            /\ cpc' = [cpc EXCEPT ![t] = "read"]
       ELSE UNCHANGED <<lock, cpc>>
    /\ UNCHANGED <<c2sClosed, s2c, s2cClosed, serverVars, next_uid, cop,
                   cuid, cbuf, cgot, cres, closePc, peerSent, peerSeen,
                   shortReads>>
    /\ UNCHANGED <<pureVars, written, regVars, uidVars, sessVars, lifeVars,
                   procVars>>

WriteNext ==
    \/ \E t \in Callers : \E o \in CallerOps(t) : \E ctx \in Contexts :
          Call(t, o, ctx)
    \/ \E t \in Callers : LockStream(t)
    \/ \E t \in Callers : \E k \in 1..MaxPayloadLen + HeaderLen :
          WriteSome(t, k)

WriteSpec == ClientInit /\ [][WriteNext]_vars

\* the places of the client's stream that caller t wrote
WrittenBy(t) == {i \in 1..Len(c2sBy) : c2sBy[i] = t}

\* the request frame of caller t
RequestFrame(t) == Frame(to_sexp(Request(cop[t], cuid[t])))

\* C37: the units of two request frames written by concurrent calls on one
\* Client are never interleaved on the wire: what each caller has written is
\* one contiguous run of the stream, and that run is the beginning of its
\* request frame (the whole frame once write_all has returned)
C37_FramesContiguous ==
    /\ Len(c2sBy) = Len(c2s)
    /\ \A t \in Callers :
          WrittenBy(t) # {} =>
             LET lo == CHOOSE i \in WrittenBy(t) :
                           \A j \in WrittenBy(t) : i <= j
                 n == Cardinality(WrittenBy(t))
             IN  /\ WrittenBy(t) = lo..(lo + n - 1)
                 /\ SubSeq(c2s, lo, lo + n - 1) = SubSeq(RequestFrame(t), 1, n)
                 /\ cpc[t] = "read" => n = Len(RequestFrame(t))

\* one caller is part-way through its write_all while the other, its request
\* made, waits for the stream
C37_Witness ==
    \E t \in Callers : \E u \in Callers \ {t} :
        /\ cpc[t] = "writing"
        /\ WrittenBy(t) # {}
        /\ unwritten[t] # <<>>
        /\ cpc[u] = "write"

(***************************************************************************)
(* Unregistering from a registry that holds methods (UnregisterSpec)       *)
(***************************************************************************)

\* the handlers that a registration can have stored under a name
HandlersFor(name) ==
    {ClosureHandler(name, docstring) : docstring \in Docstrings}
        \cup {EchoMethodHandler}

\* a registry that earlier registrations have filled, nobody using it; the
\* log holds the operations made from here on
UnregisterInit ==
    /\ EngineIdle
    /\ UidIdle /\ SessIdle /\ LifeIdle /\ ProcIdle /\ WrIdle
    /\ methods \in [RegNames -> UNION {HandlersFor(n) : n \in RegNames}
                                    \cup {NoHandler}]
    /\ \A n \in RegNames : methods[n] \in HandlersFor(n) \cup {NoHandler}
    /\ rwlock = [readers |-> {}, writer |-> "", queue |-> <<>>]
    /\ task = [t \in Tasks |-> NoTask]
    /\ oplog = <<>>
    /\ seen = {}

UnregisterNext ==
    \/ \E name \in RegNames : Unregister(name)
    \/ Remove
    \/ \E name \in RegNames : HasMethod(name)
    \/ ContainsKey

UnregisterSpec == UnregisterInit /\ [][UnregisterNext]_vars

\* the step in which unregister returns
UnregisterReturns ==
    /\ task["registrar"].op = "unregister"
    /\ task["registrar"].pc = "remove"
    /\ task'["registrar"].pc = "idle"

\* C38: unregister of a name that is not registered returns MethodNotFound
\* carrying that name and leaves the registry as it was; unregister of a
\* registered name returns Ok and removes the entry of that name and no other
C38_UnregisterRemovesThatEntry ==
    [][UnregisterReturns =>
          LET name == task["registrar"].name
          IN  IF methods[name] = NoHandler
              THEN /\ task'["registrar"].result = MethodNotFound(name)
                   /\ methods' = methods
              ELSE /\ task'["registrar"].result = OkOf("")
                   /\ methods'[name] = NoHandler
                   /\ \A n \in RegNames \ {name} : methods'[n] = methods[n]]_vars

\* both kinds of unregister have returned on a registry that held two
\* methods: one removed its entry and the other entry is still there, and the
\* next, of the name just removed, returned MethodNotFound
C38_Witness ==
    /\ Len(oplog) = 2
    /\ oplog[1].name = oplog[2].name
    /\ Finished("registrar", "unregister")
    /\ task["registrar"].result = MethodNotFound(oplog[2].name)
    /\ \E n \in RegNames \ {oplog[2].name} : methods[n] # NoHandler


=============================================================================
